---- MODULE Spec2Model ----
(***************************************************************************)
(* The scrape orchestration engine of prometheus-rds-exporter: one         *)
(* RdsCollector (package exporter) with its wait-group, counters and       *)
(* result container, the Collect calls the registry makes on it, and the   *)
(* subtask goroutines fetchMetrics launches.  The time-series fetcher      *)
(* (package cloudwatch) is translated as operators.                        *)
(*                                                                         *)
(* Go float64 values are integers here.  A Go map is a function; ranging   *)
(* over a map visits the keys in an order the runtime chooses, which is    *)
(* drawn from MapOrder where the order can matter.                         *)
(***************************************************************************)
EXTENDS Integers, Sequences, FiniteSets, TLC

\* ------------------------------------------------------------------ bounds

\* Collect calls made on the collector in one behaviour.
MaxScrapes == 2

\* Instances of the large fleet (24 queries each: more than one chunk).
FleetSize == 21

\* The subtasks a configuration enables, at most.
MaxSubtasks == 2

\* The same, where scrapes may overlap.
MaxSubtasksConcurrently == 1

\* Instances of the fleet whose queries fill whole requests and no more
\* (24 queries each: six requests of 500).
WholeChunksFleet == 125

\* Collect calls over the lifetime of a collector whose calls leave
\* goroutines behind them.
MaxLifetime == 5

\* Subtasks of earlier Collect calls still running when Collect is called.
MaxStragglers == 1

\* ------------------------------------------------------- program constants

MaxQueriesPerCloudwatchRequest == 500

exporterUpStatusCode == 1

exporterDownStatusCode == 0

\* ---------------------------------------------------------------- helpers

Range(f) == {f[x] : x \in DOMAIN f}

\* The elements of a set as a sequence, in a fixed order.
RECURSIVE SetToSeq(_)
SetToSeq(S) ==
    IF S = {} THEN <<>>
    ELSE LET x == CHOOSE y \in S : TRUE IN <<x>> \o SetToSeq(S \ {x})

\* The function f on 1..n as a tuple.
Tuple(f) == f \o <<>>

Reverse(s) == Tuple([i \in 1..Len(s) |-> s[Len(s) + 1 - i]])

RECURSIVE FlattenFrom(_, _)
FlattenFrom(ss, i) ==
    IF i > Len(ss) THEN <<>> ELSE ss[i] \o FlattenFrom(ss, i + 1)

Flatten(ss) == FlattenFrom(Tuple(ss), 1)

\* ------------------------------------------------------ cloudwatch package

\* getCloudWatchMetricsName
getCloudWatchMetricsName ==
    << "CPUUtilization", "DBLoad", "DBLoadCPU", "DBLoadNonCPU",
       "DatabaseConnections", "FreeStorageSpace", "FreeableMemory",
       "MaximumUsedTransactionIDs", "ReadIOPS", "ReadThroughput",
       "ReplicaLag", "ReplicationSlotDiskUsage", "SwapUsage",
       "TransactionLogsDiskUsage", "WriteIOPS", "WriteThroughput",
       "BufferCacheHitRatio", "Deadlocks", "Queries", "EngineUptime",
       "SumBinaryLogSize", "NumBinaryLogFiles", "AuroraBinlogReplicaLag",
       "BinLogDiskUsage" >>

\* The fields of RdsMetrics (all *float64).
RdsMetricsFields ==
    { "CPUUtilization", "DBLoad", "DBLoadCPU", "DBLoadNonCPU",
      "DatabaseConnections", "FreeStorageSpace", "FreeableMemory",
      "MaximumUsedTransactionIDs", "ReadIOPS", "ReadThroughput",
      "ReplicaLag", "ReplicationSlotDiskUsage", "SwapUsage",
      "TransactionLogsDiskUsage", "WriteIOPS", "WriteThroughput",
      "BufferCacheHitRatio", "Deadlocks", "Queries", "EngineUptime",
      "SumBinaryLogSize", "NumBinaryLogFiles", "AuroraBinlogReplicaLag",
      "BinLogDiskUsage" }

\* &RdsMetrics{}: every field nil.  An RdsMetrics is kept as the function
\* from its non-nil fields to their values, so the zero value is the empty
\* function.
EmptyRdsMetrics == <<>>

\* field != nil
IsSet(m, field) == field \in DOMAIN m

\* The cases of the switch in RdsMetrics.Update.
UpdateCases ==
    { "DBLoad", "DBLoadCPU", "DBLoadNonCPU", "CPUUtilization",
      "DatabaseConnections", "FreeStorageSpace", "FreeableMemory",
      "SwapUsage", "WriteIOPS", "ReadIOPS", "ReplicaLag",
      "ReplicationSlotDiskUsage", "MaximumUsedTransactionIDs",
      "ReadThroughput", "WriteThroughput", "TransactionLogsDiskUsage",
      "BufferCacheHitRatio", "Deadlocks", "Queries", "EngineUptime",
      "SumBinaryLogSize", "NumBinaryLogFiles", "AuroraBinlogReplicaLag",
      "BinLogDiskUsage" }

\* The field of RdsMetrics each case of the switch assigns.
UpdateAssigns ==
    [ DBLoad |-> "DBLoad", DBLoadCPU |-> "DBLoadCPU",
      DBLoadNonCPU |-> "DBLoadNonCPU", CPUUtilization |-> "CPUUtilization",
      DatabaseConnections |-> "DatabaseConnections",
      FreeStorageSpace |-> "FreeStorageSpace",
      FreeableMemory |-> "FreeableMemory", SwapUsage |-> "SwapUsage",
      WriteIOPS |-> "WriteIOPS", ReadIOPS |-> "ReadIOPS",
      ReplicaLag |-> "ReplicaLag",
      ReplicationSlotDiskUsage |-> "ReplicationSlotDiskUsage",
      MaximumUsedTransactionIDs |-> "MaximumUsedTransactionIDs",
      ReadThroughput |-> "ReadThroughput",
      WriteThroughput |-> "WriteThroughput",
      TransactionLogsDiskUsage |-> "TransactionLogsDiskUsage",
      BufferCacheHitRatio |-> "BufferCacheHitRatio",
      Deadlocks |-> "Deadlocks", Queries |-> "Queries",
      EngineUptime |-> "EngineUptime",
      SumBinaryLogSize |-> "SumBinaryLogSize",
      NumBinaryLogFiles |-> "NumBinaryLogFiles",
      AuroraBinlogReplicaLag |-> "AuroraBinlogReplicaLag",
      BinLogDiskUsage |-> "BinLogDiskUsage" ]

\* An Update whose default case returns no error.
UpdateIgnoringUnknown(m, field, value) ==
    IF field \in UpdateCases
    THEN [m |-> [f \in (DOMAIN m) \cup {UpdateAssigns[field]} |->
                    IF f = UpdateAssigns[field] THEN value ELSE m[f]],
          err |-> FALSE]
    ELSE [m |-> m, err |-> FALSE]

\* An Update whose switch has no case for BinLogDiskUsage.
UpdateWithoutBinLogDiskUsage(m, field, value) ==
    IF field \in UpdateCases \ {"BinLogDiskUsage"}
    THEN [m |-> [f \in (DOMAIN m) \cup {UpdateAssigns[field]} |->
                    IF f = UpdateAssigns[field] THEN value ELSE m[f]],
          err |-> FALSE]
    ELSE [m |-> m, err |-> TRUE]

\* RdsMetrics.Update: [m, err].
Update(m, field, value) ==
    IF field \in UpdateCases
    THEN [m |-> [f \in (DOMAIN m) \cup {UpdateAssigns[field]} |->
                    IF f = UpdateAssigns[field] THEN value ELSE m[f]],
          err |-> FALSE]
    ELSE [m |-> m, err |-> TRUE]

\* strings.ToLower on the metric names.
ToLower ==
    [ CPUUtilization |-> "cpuutilization", DBLoad |-> "dbload",
      DBLoadCPU |-> "dbloadcpu", DBLoadNonCPU |-> "dbloadnoncpu",
      DatabaseConnections |-> "databaseconnections",
      FreeStorageSpace |-> "freestoragespace",
      FreeableMemory |-> "freeablememory",
      MaximumUsedTransactionIDs |-> "maximumusedtransactionids",
      ReadIOPS |-> "readiops", ReadThroughput |-> "readthroughput",
      ReplicaLag |-> "replicalag",
      ReplicationSlotDiskUsage |-> "replicationslotdiskusage",
      SwapUsage |-> "swapusage",
      TransactionLogsDiskUsage |-> "transactionlogsdiskusage",
      WriteIOPS |-> "writeiops", WriteThroughput |-> "writethroughput",
      BufferCacheHitRatio |-> "buffercachehitratio",
      Deadlocks |-> "deadlocks", Queries |-> "queries",
      EngineUptime |-> "engineuptime",
      SumBinaryLogSize |-> "sumbinarylogsize",
      NumBinaryLogFiles |-> "numbinarylogfiles",
      AuroraBinlogReplicaLag |-> "aurorabinlogreplicalag",
      BinLogDiskUsage |-> "binlogdiskusage" ]

\* A query id that leaves the index of the instance out.
QueryIDWithoutIndex(metricName, i) == ToLower[metricName]

\* fmt.Sprintf("%s_%d", strings.ToLower(metricName), i)
QueryID(metricName, i) == ToLower[metricName] \o "_" \o ToString(i)

\* generateCloudWatchQueryForInstance: the request kept for a query id.
generateCloudWatchQueryForInstance(queryID, metricName, dbIdentifier) ==
    [Dbidentifier |-> dbIdentifier, MetricName |-> metricName, Id |-> queryID]

\* The two nested loops of generateCloudWatchQueriesForInstances, as the
\* iterations lo..hi of one loop over (instance, metric) in the same order:
\* iteration j is instance (j-1) div 24 (the Go index i, from 0) and metric
\* (j-1) mod 24.  [queries, keys]: the map written, where a later write of
\* a key replaces the earlier one, and the keys in the order they were first
\* written (the iterations are halved to keep the evaluation shallow).
RECURSIVE WriteQueries(_, _, _)
WriteQueries(dbIdentifiers, lo, hi) ==
    LET n == Len(getCloudWatchMetricsName) IN
    IF lo > hi THEN [queries |-> <<>>, keys |-> <<>>]
    ELSE IF lo = hi
    THEN LET i == (lo - 1) \div n
             metricName == getCloudWatchMetricsName[((lo - 1) % n) + 1]
             queryID == QueryID(metricName, i)
         IN [queries |-> (queryID :> generateCloudWatchQueryForInstance(
                                        queryID, metricName,
                                        dbIdentifiers[i + 1])),
             keys |-> <<queryID>>]
    ELSE LET mid == (lo + hi) \div 2
             left == WriteQueries(dbIdentifiers, lo, mid)
             right == WriteQueries(dbIdentifiers, mid + 1, hi)
         IN [queries |-> right.queries @@ left.queries,
             keys |-> left.keys \o
                      SelectSeq(right.keys,
                                LAMBDA k : k \notin DOMAIN left.queries)]

\* generateCloudWatchQueriesForInstances: the map query id -> request.
generateCloudWatchQueriesForInstances(dbIdentifiers) ==
    WriteQueries(dbIdentifiers, 1,
                 Len(dbIdentifiers) * Len(getCloudWatchMetricsName)).queries

\* The zero CloudWatchMetricRequest a Go map read yields for a missing key.
ZeroRequest == [Dbidentifier |-> "", MetricName |-> "", Id |-> ""]

RequestOf(requests, id) ==
    IF id \in DOMAIN requests THEN requests[id] ELSE ZeroRequest

\* An iteration that stores 0 for a value list that is empty.
ProcessResultZeroForEmpty(ms, requests, m) ==
    IF m.IsNil THEN [metrics |-> ms, err |-> FALSE]
    ELSE
      LET val == RequestOf(requests, m.Id)
          withEntry ==
              IF val.Dbidentifier \in DOMAIN ms THEN ms
              ELSE [d \in (DOMAIN ms) \cup {val.Dbidentifier} |->
                       IF d = val.Dbidentifier THEN EmptyRdsMetrics
                       ELSE ms[d]]
          u == Update(withEntry[val.Dbidentifier], val.MetricName,
                      IF Len(m.Values) > 0 THEN m.Values[1] ELSE 0)
      IN IF u.err THEN [metrics |-> withEntry, err |-> TRUE]
         ELSE [metrics |-> [withEntry EXCEPT ![val.Dbidentifier] = u.m],
               err |-> FALSE]

\* An iteration that stores the last value of the list.
ProcessResultLastValue(ms, requests, m) ==
    IF m.IsNil THEN [metrics |-> ms, err |-> FALSE]
    ELSE
      LET val == RequestOf(requests, m.Id)
          withEntry ==
              IF val.Dbidentifier \in DOMAIN ms THEN ms
              ELSE [d \in (DOMAIN ms) \cup {val.Dbidentifier} |->
                       IF d = val.Dbidentifier THEN EmptyRdsMetrics
                       ELSE ms[d]]
      IN
      IF Len(m.Values) > 0
      THEN LET u == Update(withEntry[val.Dbidentifier], val.MetricName,
                           m.Values[Len(m.Values)])
           IN IF u.err THEN [metrics |-> withEntry, err |-> TRUE]
              ELSE [metrics |-> [withEntry EXCEPT ![val.Dbidentifier] = u.m],
                    err |-> FALSE]
      ELSE [metrics |-> withEntry, err |-> FALSE]

\* One iteration of the loop over resp.MetricDataResults of
\* updateMetricsWithCloudWatchQueriesResult, for the result m, which is
\* [Id, IsNil, Values] (IsNil: Values == nil): [metrics, err].
ProcessResult(ms, requests, m) ==
    IF m.IsNil THEN [metrics |-> ms, err |-> FALSE]
    ELSE
      LET val == RequestOf(requests, m.Id)
          withEntry ==
              IF val.Dbidentifier \in DOMAIN ms THEN ms
              ELSE [d \in (DOMAIN ms) \cup {val.Dbidentifier} |->
                       IF d = val.Dbidentifier THEN EmptyRdsMetrics
                       ELSE ms[d]]
      IN
      IF Len(m.Values) > 0
      THEN LET u == Update(withEntry[val.Dbidentifier], val.MetricName,
                           m.Values[1])
           IN IF u.err THEN [metrics |-> withEntry, err |-> TRUE]
              ELSE [metrics |-> [withEntry EXCEPT ![val.Dbidentifier] = u.m],
                    err |-> FALSE]
      ELSE [metrics |-> withEntry, err |-> FALSE]

\* The loop itself over results[lo..hi], in order, stopping at the first
\* error (the range is halved only to keep the evaluation shallow).
RECURSIVE ProcessResults(_, _, _, _, _)
ProcessResults(ms, requests, results, lo, hi) ==
    IF lo > hi THEN [metrics |-> ms, err |-> FALSE]
    ELSE IF lo = hi THEN ProcessResult(ms, requests, results[lo])
    ELSE LET mid == (lo + hi) \div 2
             left == ProcessResults(ms, requests, results, lo, mid)
         IN IF left.err THEN left
            ELSE ProcessResults(left.metrics, requests, results, mid + 1, hi)

\* updateMetricsWithCloudWatchQueriesResult: resp is the answer of
\* client.GetMetricData to the chunk's queries, [err, MetricDataResults].
updateMetricsWithCloudWatchQueriesResult(ms, requests, resp) ==
    IF resp.err THEN [metrics |-> ms, err |-> TRUE]
    ELSE ProcessResults(ms, requests, resp.MetricDataResults, 1,
                        Len(resp.MetricDataResults))

\* ------------------------------------------------- the CloudWatch upstream

\* What CloudWatch holds for a series: the value list of its result
\* (newest first), and whether the list is nil.
SeriesPatterns == {"s2", "all"}

SeriesAnswer(pattern, metricName) ==
    CASE pattern = "all" -> [IsNil |-> FALSE, Values |-> <<5, 9>>]
      [] pattern = "s2" /\ metricName = "CPUUtilization" ->
             [IsNil |-> FALSE, Values |-> <<12>>]
      [] pattern = "s2" /\ metricName = "DatabaseConnections" ->
             [IsNil |-> FALSE, Values |-> <<>>]
      [] OTHER -> [IsNil |-> TRUE, Values |-> <<>>]

\* client.GetMetricData for the queries of a chunk: the n-th call of a fetch
\* fails when the upstream fails at call n; otherwise one result per query.
GetMetricData(requests, chunk, up, n) ==
    IF up.failAt = n THEN [err |-> TRUE, MetricDataResults |-> <<>>]
    ELSE [err |-> FALSE,
          MetricDataResults |->
              Tuple([j \in 1..Len(chunk) |->
                  [Id |-> chunk[j]] @@
                  SeriesAnswer(up.pattern, requests[chunk[j]].MetricName)])]

\* An iteration that sends the chunk once it holds one query more than the
\* cap.
RangeStepLateFlush(requests, query, st, up) ==
    LET chunk == Append(st.chunk, query) IN
    IF Len(chunk) = MaxQueriesPerCloudwatchRequest + 1
    THEN LET r == updateMetricsWithCloudWatchQueriesResult(
                     st.metrics, requests,
                     GetMetricData(requests, chunk, up, st.issued + 1))
         IN IF r.err
            THEN [st EXCEPT !.err = TRUE, !.issued = @ + 1,
                            !.sent = Append(@, chunk)]
            ELSE [metrics |-> r.metrics, chunk |-> <<>>,
                  issued |-> st.issued + 1, sent |-> Append(st.sent, chunk),
                  err |-> FALSE]
    ELSE [st EXCEPT !.chunk = chunk]

\* One iteration of the for-range loop of GetRDSInstanceMetrics, for the
\* key `query`.  st is [metrics, chunk, issued, sent, err]: issued counts
\* the GetMetricData calls made and sent lists the chunks they carried.
RangeStep(requests, query, st, up) ==
    LET chunk == Append(st.chunk, query) IN
    IF Len(chunk) = MaxQueriesPerCloudwatchRequest
    THEN LET r == updateMetricsWithCloudWatchQueriesResult(
                     st.metrics, requests,
                     GetMetricData(requests, chunk, up, st.issued + 1))
         IN IF r.err
            THEN [st EXCEPT !.err = TRUE, !.issued = @ + 1,
                            !.sent = Append(@, chunk)]
            ELSE [metrics |-> r.metrics, chunk |-> <<>>,
                  issued |-> st.issued + 1, sent |-> Append(st.sent, chunk),
                  err |-> FALSE]
    ELSE [st EXCEPT !.chunk = chunk]

\* The loop over the keys order[lo..hi] of the query map, in that order,
\* returning at the first error (halved to keep the evaluation shallow).
RECURSIVE RangeQueries(_, _, _, _, _, _)
RangeQueries(requests, order, lo, hi, st, up) ==
    IF lo > hi THEN st
    ELSE IF lo = hi THEN RangeStep(requests, order[lo], st, up)
    ELSE LET mid == (lo + hi) \div 2
             left == RangeQueries(requests, order, lo, mid, st, up)
         IN IF left.err THEN left
            ELSE RangeQueries(requests, order, mid + 1, hi, left, up)

\* A GetRDSInstanceMetrics that returns, with the error, what the earlier
\* chunks have stored.
GetRDSInstanceMetricsKeepingStored(dbIdentifiers, order, up) ==
    LET cloudWatchQueries ==
            generateCloudWatchQueriesForInstances(dbIdentifiers)
        st == RangeQueries(cloudWatchQueries, order, 1, Len(order),
                  [metrics |-> <<>>, chunk |-> <<>>, issued |-> 0,
                   sent |-> <<>>, err |-> FALSE], up)
    IN
    IF st.err
    THEN [Instances |-> st.metrics, err |-> TRUE, CloudWatchAPICall |-> 0,
          issued |-> st.issued, sent |-> st.sent]
    ELSE IF Len(st.chunk) > 0
    THEN LET r == updateMetricsWithCloudWatchQueriesResult(
                     st.metrics, cloudWatchQueries,
                     GetMetricData(cloudWatchQueries, st.chunk, up,
                                   st.issued + 1))
             sent == Append(st.sent, st.chunk)
         IN IF r.err
            THEN [Instances |-> st.metrics, err |-> TRUE,
                  CloudWatchAPICall |-> 0, issued |-> st.issued + 1,
                  sent |-> sent]
            ELSE [Instances |-> r.metrics, err |-> FALSE,
                  CloudWatchAPICall |-> 1, issued |-> st.issued + 1,
                  sent |-> sent]
    ELSE [Instances |-> st.metrics, err |-> FALSE, CloudWatchAPICall |-> 0,
          issued |-> st.issued, sent |-> st.sent]

\* GetRDSInstanceMetrics on a new fetcher: [Instances, err, CloudWatchAPICall,
\* issued, sent].  CloudWatchAPICall is the fetcher's statistic afterwards;
\* only the last, possibly incomplete batch increments it.
GetRDSInstanceMetrics(dbIdentifiers, order, up) ==
    LET cloudWatchQueries ==
            generateCloudWatchQueriesForInstances(dbIdentifiers)
        st == RangeQueries(cloudWatchQueries, order, 1, Len(order),
                  [metrics |-> <<>>, chunk |-> <<>>, issued |-> 0,
                   sent |-> <<>>, err |-> FALSE], up)
    IN
    IF st.err
    THEN [Instances |-> <<>>, err |-> TRUE, CloudWatchAPICall |-> 0,
          issued |-> st.issued, sent |-> st.sent]
    ELSE IF Len(st.chunk) > 0
    THEN LET r == updateMetricsWithCloudWatchQueriesResult(
                     st.metrics, cloudWatchQueries,
                     GetMetricData(cloudWatchQueries, st.chunk, up,
                                   st.issued + 1))
             sent == Append(st.sent, st.chunk)
         IN IF r.err
            THEN [Instances |-> <<>>, err |-> TRUE, CloudWatchAPICall |-> 0,
                  issued |-> st.issued + 1, sent |-> sent]
            ELSE [Instances |-> r.metrics, err |-> FALSE,
                  CloudWatchAPICall |-> 1, issued |-> st.issued + 1,
                  sent |-> sent]
    ELSE [Instances |-> st.metrics, err |-> FALSE, CloudWatchAPICall |-> 0,
          issued |-> st.issued, sent |-> st.sent]

\* The order in which the range over the query map visits its keys: the Go
\* runtime picks one; the order of writing and its reverse stand for them.
MapOrder(dbIdentifiers, rev) ==
    LET keys == WriteQueries(dbIdentifiers, 1,
                    Len(dbIdentifiers) * Len(getCloudWatchMetricsName)).keys
    IN IF rev THEN Reverse(keys) ELSE keys

\* -------------------------------------------------------- exporter package

awsAccountID == "123456789012"

awsRegion == "eu-west-3"

\* The descriptors NewCollector builds (prometheus.NewDesc: the metric name
\* and the variable label names, in order), by field of RdsCollector.
InstanceLabels == <<"aws_account_id", "aws_region", "dbidentifier">>

ClassLabels == <<"aws_account_id", "aws_region", "instance_class">>

AccountLabels == <<"aws_account_id", "aws_region">>

NewDesc(fqName, variableLabels) == [name |-> fqName, labels |-> variableLabels]

NewCollector ==
    [ exporterBuildInformation |->
          NewDesc("rds_exporter_build_info",
                  <<"version", "commit_sha", "build_date", "aws_region">>),
      errors |-> NewDesc("rds_exporter_errors_total", <<"aws_region">>),
      allocatedStorage |-> NewDesc("rds_allocated_storage_bytes", InstanceLabels),
      information |->
          NewDesc("rds_instance_info",
                  <<"aws_account_id", "aws_region", "dbidentifier",
                    "dbi_resource_id", "instance_class", "engine",
                    "engine_version", "storage_type", "multi_az",
                    "deletion_protection", "role", "source_dbidentifier",
                    "pending_modified_values", "pending_maintenance",
                    "performance_insights_enabled",
                    "ca_certificate_identifier", "arn">>),
      age |-> NewDesc("rds_instance_age_seconds", InstanceLabels),
      maxAllocatedStorage |->
          NewDesc("rds_max_allocated_storage_bytes", InstanceLabels),
      maxIops |-> NewDesc("rds_max_disk_iops_average", InstanceLabels),
      storageThroughput |->
          NewDesc("rds_max_storage_throughput_bytes", InstanceLabels),
      readThroughput |-> NewDesc("rds_read_throughput_bytes", InstanceLabels),
      writeThroughput |-> NewDesc("rds_write_throughput_bytes", InstanceLabels),
      status |-> NewDesc("rds_instance_status", InstanceLabels),
      logFilesSize |->
          NewDesc("rds_instance_log_files_size_bytes", InstanceLabels),
      instanceVCPU |-> NewDesc("rds_instance_vcpu_average", ClassLabels),
      instanceMemory |-> NewDesc("rds_instance_memory_bytes", ClassLabels),
      instanceTags |-> NewDesc("rds_instance_tags", InstanceLabels),
      cpuUtilisation |->
          NewDesc("rds_cpu_usage_percent_average", InstanceLabels),
      instanceMaximumThroughput |->
          NewDesc("rds_instance_max_throughput_bytes", ClassLabels),
      instanceMaximumIops |->
          NewDesc("rds_instance_max_iops_average", ClassLabels),
      freeStorageSpace |-> NewDesc("rds_free_storage_bytes", InstanceLabels),
      databaseConnections |->
          NewDesc("rds_database_connections_average", InstanceLabels),
      up |-> NewDesc("up", <<"aws_region">>),
      swapUsage |-> NewDesc("rds_swap_usage_bytes", InstanceLabels),
      writeIOPS |-> NewDesc("rds_write_iops_average", InstanceLabels),
      readIOPS |-> NewDesc("rds_read_iops_average", InstanceLabels),
      replicaLag |-> NewDesc("rds_replica_lag_seconds", InstanceLabels),
      replicationSlotDiskUsage |->
          NewDesc("rds_replication_slot_disk_usage_bytes", InstanceLabels),
      maximumUsedTransactionIDs |->
          NewDesc("rds_maximum_used_transaction_ids_average", InstanceLabels),
      freeableMemory |-> NewDesc("rds_freeable_memory_bytes", InstanceLabels),
      apiCall |->
          NewDesc("rds_api_call_total", <<"aws_account_id", "aws_region", "api">>),
      backupRetentionPeriod |->
          NewDesc("rds_backup_retention_period_seconds", InstanceLabels),
      DBLoad |-> NewDesc("rds_dbload_average", InstanceLabels),
      dBLoadCPU |-> NewDesc("rds_dbload_cpu_average", InstanceLabels),
      dBLoadNonCPU |-> NewDesc("rds_dbload_noncpu_average", InstanceLabels),
      transactionLogsDiskUsage |->
          NewDesc("rds_transaction_logs_disk_usage_bytes", InstanceLabels),
      certificateValidTill |->
          NewDesc("rds_certificate_expiry_timestamp_seconds", InstanceLabels),
      quotaDBInstances |->
          NewDesc("rds_quota_max_dbinstances_average", AccountLabels),
      quotaTotalStorage |->
          NewDesc("rds_quota_total_storage_bytes", AccountLabels),
      quotaMaxDBInstanceSnapshots |->
          NewDesc("rds_quota_maximum_db_instance_snapshots_average",
                  AccountLabels),
      usageAllocatedStorage |->
          NewDesc("rds_usage_allocated_storage_bytes", AccountLabels),
      usageDBInstances |->
          NewDesc("rds_usage_db_instances_average", AccountLabels),
      usageManualSnapshots |->
          NewDesc("rds_usage_manual_snapshots_average", AccountLabels),
      BufferCacheHitRatio |->
          NewDesc("rds_buffer_cache_hit_ratio", InstanceLabels),
      Deadlocks |-> NewDesc("rds_deadlocks", InstanceLabels),
      Queries |-> NewDesc("rds_queries", InstanceLabels),
      EngineUptime |-> NewDesc("rds_engine_uptime_seconds", InstanceLabels),
      SumBinaryLogSize |->
          NewDesc("rds_sum_binary_log_size_bytes", InstanceLabels),
      NumBinaryLogFiles |-> NewDesc("rds_num_binary_log_files", InstanceLabels),
      AuroraBinlogReplicaLag |->
          NewDesc("rds_aurora_binlog_replica_lag_seconds", InstanceLabels),
      BinLogDiskUsage |-> NewDesc("rds_binlog_disk_usage_bytes", InstanceLabels) ]

\* Describe: the fields sent on the channel, in order, for a collector c
\* (the record of its descriptor fields).
DescribeFields ==
    << "DBLoad", "age", "allocatedStorage", "apiCall", "apiCall",
       "backupRetentionPeriod", "certificateValidTill", "cpuUtilisation",
       "dBLoadCPU", "dBLoadNonCPU", "databaseConnections", "errors",
       "exporterBuildInformation", "freeStorageSpace", "freeableMemory",
       "information", "instanceMaximumIops", "instanceMaximumThroughput",
       "instanceMemory", "instanceVCPU", "logFilesSize",
       "maxAllocatedStorage", "maxIops", "maximumUsedTransactionIDs",
       "quotaDBInstances", "quotaMaxDBInstanceSnapshots",
       "quotaTotalStorage", "readIOPS", "readThroughput", "replicaLag",
       "replicationSlotDiskUsage", "status", "storageThroughput",
       "swapUsage", "transactionLogsDiskUsage", "up",
       "usageAllocatedStorage", "usageDBInstances", "usageManualSnapshots",
       "writeIOPS", "writeThroughput", "BufferCacheHitRatio", "Deadlocks",
       "Queries", "EngineUptime", "SumBinaryLogSize", "NumBinaryLogFiles",
       "AuroraBinlogReplicaLag", "BinLogDiskUsage" >>

Describe(c) ==
    Tuple([i \in 1..Len(DescribeFields) |-> c[DescribeFields[i]]])

\* prometheus.MustNewConstMetric: the sample of a descriptor.  It panics when
\* the label values are not one per variable label of the descriptor.
MustNewConstMetric(desc, value, labelValues) ==
    [name |-> desc.name, labelNames |-> desc.labels,
     labelValues |-> labelValues, value |-> value]

ConstMetricPanics(sample) == Len(sample.labelValues) # Len(sample.labelNames)

\* strconv.FormatBool
FormatBool(b) == IF b THEN "true" ELSE "false"

\* The zero values of the slots of the result container (type metrics).
ZeroServiceQuota ==
    [DBinstances |-> 0, TotalStorage |-> 0, ManualDBInstanceSnapshots |-> 0]

ZeroUsage == [AllocatedStorage |-> 0, DBInstances |-> 0, ManualSnapshots |-> 0]

ZeroMetrics ==
    [ ServiceQuota |-> ZeroServiceQuota,
      RDS |-> [Instances |-> <<>>],
      EC2 |-> [Instances |-> <<>>],
      CloudwatchInstances |-> [Instances |-> <<>>],
      CloudWatchUsage |-> ZeroUsage ]

\* The zero Counters.
ZeroCounters ==
    [ CloudwatchAPICalls |-> 0, EC2APIcalls |-> 0, Errors |-> 0,
      RDSAPIcalls |-> 0, ServiceQuotasAPICalls |-> 0, UsageAPIcalls |-> 0 ]

\* Configuration: the flags fetchMetrics and Collect read.
Configurations ==
    [ CollectInstanceMetrics : BOOLEAN, CollectInstanceTags : BOOLEAN,
      CollectInstanceTypes : BOOLEAN, CollectQuotas : BOOLEAN,
      CollectUsages : BOOLEAN ]

\* ------------------------------------------------------ the RDS inventory

\* Option values (Go pointers): <<>> is nil, <<v>> points to v.
\* rds.RdsInstanceMetrics records as GetInstancesMetrics returns them; a tag
\* key is the sequence of its characters.
InstanceA ==
    [ Arn |-> "arn:aws:rds:eu-west-3:123456789012:db:db-a",
      AllocatedStorage |-> 20, MaxAllocatedStorage |-> 100, MaxIops |-> 3000,
      StorageThroughput |-> 125, Status |-> 1, BackupRetentionPeriod |-> 604800,
      DbiResourceID |-> "db-RESA", DBInstanceClass |-> "db.t3.small",
      Engine |-> "mysql", EngineVersion |-> "8.0", StorageType |-> "gp3",
      MultiAZ |-> TRUE, DeletionProtection |-> TRUE, Role |-> "primary",
      SourceDBInstanceIdentifier |-> "", PendingModifiedValues |-> FALSE,
      PendingMaintenanceAction |-> "", PerformanceInsightsEnabled |-> TRUE,
      CACertificateIdentifier |-> "rds-ca-rsa2048-g1",
      CertificateValidTill |-> <<1900000000>>, Age |-> <<3600>>,
      LogFilesSize |-> <<1024>>,
      Tags |-> (<<"e", "n", "v">> :> "prod")
                 @@ (<<"c", "o", "s", "t", "-", "i", "d">> :> "42") ]

InstanceB ==
    [ Arn |-> "arn:aws:rds:eu-west-3:123456789012:db:db-b",
      AllocatedStorage |-> 50, MaxAllocatedStorage |-> 0, MaxIops |-> 1000,
      StorageThroughput |-> 0, Status |-> 4, BackupRetentionPeriod |-> 0,
      DbiResourceID |-> "db-RESB", DBInstanceClass |-> "db.t3.large",
      Engine |-> "postgres", EngineVersion |-> "15.4", StorageType |-> "io1",
      MultiAZ |-> FALSE, DeletionProtection |-> FALSE, Role |-> "replica",
      SourceDBInstanceIdentifier |-> "db-a", PendingModifiedValues |-> TRUE,
      PendingMaintenanceAction |-> "system-update",
      PerformanceInsightsEnabled |-> FALSE,
      CACertificateIdentifier |-> "rds-ca-2019",
      CertificateValidTill |-> <<>>, Age |-> <<>>, LogFilesSize |-> <<>>,
      Tags |-> <<>> ]

FleetIdentifier(i) == "db-" \o ToString(i)

FleetInstance(i) ==
    [InstanceB EXCEPT !.Arn = "arn:aws:rds:eu-west-3:123456789012:db:"
                                 \o FleetIdentifier(i),
                      !.DbiResourceID = "db-RES" \o ToString(i),
                      !.Role = "primary", !.SourceDBInstanceIdentifier = "",
                      !.DBInstanceClass = "db.t3.small"]

\* Tag maps of instances: none, plain keys, keys with characters that are
\* not allowed in label names, keys that become the same label name, keys
\* named like the fixed labels, and the empty key.
TagMaps ==
    { <<>>,
      (<<"e", "n", "v">> :> "prod"),
      (<<"a", "-", "b">> :> "1") @@ (<<"a", ".", "b">> :> "2"),
      (<<"a", "_", "b">> :> "1") @@ (<<"a", " ", "b">> :> "2")
          @@ (<<"N", "a", "m", "e">> :> "db"),
      (<<"a", "w", "s", "_", "r", "e", "g", "i", "o", "n">> :> "mars")
          @@ (<<"d", "b", "i", "d", "e", "n", "t", "i", "f", "i", "e", "r">>
                  :> "other"),
      (<<>> :> "anonymous") @@ (<<"9">> :> "nine") }

TaggedInstance(instance, tags) == [instance EXCEPT !.Tags = tags]

\* The instance maps GetInstancesMetrics may return, by kind of account.
Inventories ==
    [ empty |-> { <<>> },
      tagged |-> { ("db-a" :> TaggedInstance(InstanceA, t)) : t \in TagMaps }
                 \cup { ("db-a" :> TaggedInstance(InstanceA, t))
                           @@ ("db-b" :> InstanceB) : t \in TagMaps },
      small |-> { <<>>, ("db-a" :> InstanceA) @@ ("db-b" :> InstanceB) },
      large |-> { [d \in {FleetIdentifier(i) : i \in 1..FleetSize} |->
                      FleetInstance(CHOOSE i \in 1..FleetSize :
                                        FleetIdentifier(i) = d)] } ]

\* getUniqTypeAndIdentifiers: the identifiers, and the instance classes
\* without duplicates.
getUniqTypeAndIdentifiers(instances) ==
    [ instanceIdentifiers |-> SetToSeq(DOMAIN instances),
      instanceTypes |->
          SetToSeq({instances[d].DBInstanceClass : d \in DOMAIN instances}) ]

\* ------------------------------------------------------------ tag labels

AllowedLabelCharacters ==
    { "a", "b", "c", "d", "e", "f", "g", "h", "i", "j", "k", "l", "m", "n",
      "o", "p", "q", "r", "s", "t", "u", "v", "w", "x", "y", "z",
      "A", "B", "C", "D", "E", "F", "G", "H", "I", "J", "K", "L", "M", "N",
      "O", "P", "Q", "R", "S", "T", "U", "V", "W", "X", "Y", "Z",
      "0", "1", "2", "3", "4", "5", "6", "7", "8", "9", "_" }

RECURSIVE Join(_)
Join(chars) == IF chars = <<>> THEN "" ELSE Head(chars) \o Join(Tail(chars))

\* ClearPrometheusLabel: every character outside [A-Za-z0-9_] becomes "_".
ClearPrometheusLabel(chars) ==
    Join(Tuple([i \in 1..Len(chars) |->
             IF chars[i] \in AllowedLabelCharacters THEN chars[i] ELSE "_"]))

\* A range over a Go map with keys S: the keys in the order visited.
RangeOrder(S, rev) == IF rev THEN Reverse(SetToSeq(S)) ELSE SetToSeq(S)

\* A first loop that writes the tags into the labels map under the
\* sanitized key, without the prefix.
RECURSIVE AddTagLabelsWithoutPrefix(_, _, _, _)
AddTagLabelsWithoutPrefix(labels, tags, tagOrder, i) ==
    IF i > Len(tagOrder) THEN labels
    ELSE LET labelName == ClearPrometheusLabel(tagOrder[i])
         IN AddTagLabelsWithoutPrefix((labelName :> tags[tagOrder[i]]) @@ labels,
                                      tags, tagOrder, i + 1)

\* The first loop of getInstanceTagLabels: the labels map after the tags
\* tagOrder[i..] have been written into it.
RECURSIVE AddTagLabels(_, _, _, _)
AddTagLabels(labels, tags, tagOrder, i) ==
    IF i > Len(tagOrder) THEN labels
    ELSE LET labelName == "tag_" \o ClearPrometheusLabel(tagOrder[i])
         IN AddTagLabels((labelName :> tags[tagOrder[i]]) @@ labels,
                         tags, tagOrder, i + 1)

\* getInstanceTagLabels: [keys, values]; rev picks the order of the ranges.
getInstanceTagLabels(dbidentifier, instance, rev) ==
    LET fixed == [aws_account_id |-> awsAccountID, aws_region |-> awsRegion,
                  dbidentifier |-> dbidentifier]
        labels == AddTagLabels(fixed, instance.Tags,
                               RangeOrder(DOMAIN instance.Tags, rev), 1)
        keys == RangeOrder(DOMAIN labels, rev)
    IN [keys |-> keys, values |-> Tuple([i \in 1..Len(keys) |-> labels[keys[i]]])]

\* ---------------------------------------------------------------- Collect

\* build.Version, build.CommitSHA, build.Date
BuildLabels == <<"1.0.0", "abcdef0", "2024-01-01">>

\* A head that leaves out the error counter while it is zero.
CollectHeadNonZeroErrors(c, cs) ==
    << MustNewConstMetric(c.exporterBuildInformation, 1,
                          BuildLabels \o <<awsRegion>>) >>
    \o (IF cs.Errors > 0
        THEN <<MustNewConstMetric(c.errors, cs.Errors, <<awsRegion>>)>>
        ELSE <<>>)

\* Collect, the two samples sent before fetchMetrics is called.
CollectHead(c, cs) ==
    << MustNewConstMetric(c.exporterBuildInformation, 1,
                          BuildLabels \o <<awsRegion>>),
       MustNewConstMetric(c.errors, cs.Errors, <<awsRegion>>) >>

\* A Collect that reports the exporter up whatever fetchMetrics returned.
UpSampleAlwaysUp(c, statusCode) ==
    MustNewConstMetric(c.up, exporterUpStatusCode, <<awsRegion>>)

\* Collect, the up sample.
UpSample(c, statusCode) == MustNewConstMetric(c.up, statusCode, <<awsRegion>>)

\* An API call sample with a descriptor built for it, without the account
\* and the region.
ApiCallSampleOwnDesc(c, value, api) ==
    MustNewConstMetric(NewDesc("rds_api_call_total", <<"api">>), value, <<api>>)

ApiCallSample(c, value, api) ==
    MustNewConstMetric(c.apiCall, value, <<awsAccountID, awsRegion, api>>)

Optional(desc, option, labelValues) ==
    IF option = <<>> THEN <<>>
    ELSE <<MustNewConstMetric(desc, option[1], labelValues)>>

\* The descriptor Collect stores in c.instanceTags for an instance.
InstanceTagsDesc(dbidentifier, instance, rev) ==
    NewDesc("rds_instance_tags",
            getInstanceTagLabels(dbidentifier, instance, rev).keys)

\* Collect, one iteration of the loop over c.metrics.RDS.Instances.
InstanceSamples(c, cfg, dbidentifier, instance, rev) ==
    LET l == <<awsAccountID, awsRegion, dbidentifier>> IN
    << MustNewConstMetric(c.allocatedStorage, instance.AllocatedStorage, l),
       MustNewConstMetric(c.information, 1,
           << awsAccountID, awsRegion, dbidentifier, instance.DbiResourceID,
              instance.DBInstanceClass, instance.Engine,
              instance.EngineVersion, instance.StorageType,
              FormatBool(instance.MultiAZ),
              FormatBool(instance.DeletionProtection), instance.Role,
              instance.SourceDBInstanceIdentifier,
              FormatBool(instance.PendingModifiedValues),
              instance.PendingMaintenanceAction,
              FormatBool(instance.PerformanceInsightsEnabled),
              instance.CACertificateIdentifier, instance.Arn >>),
       MustNewConstMetric(c.maxAllocatedStorage, instance.MaxAllocatedStorage, l),
       MustNewConstMetric(c.maxIops, instance.MaxIops, l),
       MustNewConstMetric(c.status, instance.Status, l),
       MustNewConstMetric(c.storageThroughput, instance.StorageThroughput, l),
       MustNewConstMetric(c.backupRetentionPeriod,
                          instance.BackupRetentionPeriod, l) >>
    \o (IF cfg.CollectInstanceTags
        THEN << MustNewConstMetric(
                    InstanceTagsDesc(dbidentifier, instance, rev), 0,
                    getInstanceTagLabels(dbidentifier, instance, rev).values) >>
        ELSE <<>>)
    \o Optional(c.certificateValidTill, instance.CertificateValidTill, l)
    \o Optional(c.age, instance.Age, l)
    \o Optional(c.logFilesSize, instance.LogFilesSize, l)

\* Collect, the loop over c.metrics.RDS.Instances with the rds API counter.
RDSSamples(c, cfg, cs, ms, rev) ==
    LET instances == ms.RDS.Instances
        ids == SetToSeq(DOMAIN instances)
    IN <<ApiCallSample(c, cs.RDSAPIcalls, "rds")>>
       \o Flatten([i \in 1..Len(ids) |->
                     InstanceSamples(c, cfg, ids[i],
                                     instances[ids[i]], rev)])

\* c.instanceTags after the loop over c.metrics.RDS.Instances.
InstanceTagsAfter(c, cfg, ms, rev) ==
    LET instances == ms.RDS.Instances
        ids == SetToSeq(DOMAIN instances)
    IN IF cfg.CollectInstanceTags /\ ids # <<>>
       THEN InstanceTagsDesc(ids[Len(ids)], instances[ids[Len(ids)]], rev)
       ELSE c.instanceTags

\* Collect, the tests of the loop over c.metrics.CloudwatchInstances, in
\* order: the field of RdsMetrics tested and the descriptor of its sample.
SeriesEmission ==
    << <<"DatabaseConnections", "databaseConnections">>,
       <<"FreeStorageSpace", "freeStorageSpace">>,
       <<"FreeableMemory", "freeableMemory">>,
       <<"MaximumUsedTransactionIDs", "maximumUsedTransactionIDs">>,
       <<"ReadThroughput", "readThroughput">>,
       <<"ReplicaLag", "replicaLag">>,
       <<"ReplicationSlotDiskUsage", "replicationSlotDiskUsage">>,
       <<"SwapUsage", "swapUsage">>,
       <<"ReadIOPS", "readIOPS">>,
       <<"WriteIOPS", "writeIOPS">>,
       <<"WriteThroughput", "writeThroughput">>,
       <<"TransactionLogsDiskUsage", "transactionLogsDiskUsage">>,
       <<"DBLoad", "DBLoad">>,
       <<"CPUUtilization", "cpuUtilisation">>,
       <<"DBLoadCPU", "dBLoadCPU">>,
       <<"DBLoadNonCPU", "dBLoadNonCPU">>,
       <<"BufferCacheHitRatio", "BufferCacheHitRatio">>,
       <<"Deadlocks", "Deadlocks">>,
       <<"Queries", "Queries">>,
       <<"EngineUptime", "EngineUptime">>,
       <<"SumBinaryLogSize", "SumBinaryLogSize">>,
       <<"NumBinaryLogFiles", "NumBinaryLogFiles">>,
       <<"AuroraBinlogReplicaLag", "AuroraBinlogReplicaLag">>,
       <<"BinLogDiskUsage", "BinLogDiskUsage">> >>

\* Collect, one iteration of the loop over c.metrics.CloudwatchInstances.
SeriesSamples(c, dbidentifier, instance) ==
    Flatten([i \in 1..Len(SeriesEmission) |->
               IF IsSet(instance, SeriesEmission[i][1])
               THEN << MustNewConstMetric(
                           c[SeriesEmission[i][2]],
                           instance[SeriesEmission[i][1]],
                           <<awsAccountID, awsRegion, dbidentifier>>) >>
               ELSE <<>>])

\* Collect, the loop over c.metrics.CloudwatchInstances with its counter.
CloudwatchSamples(c, cs, ms) ==
    LET instances == ms.CloudwatchInstances.Instances
        ids == SetToSeq(DOMAIN instances)
    IN <<ApiCallSample(c, cs.CloudwatchAPICalls, "cloudwatch")>>
       \o Flatten([i \in 1..Len(ids) |->
                     SeriesSamples(c, ids[i], instances[ids[i]])])

\* Usage metrics sent only when the inventory holds an instance.
UsageSamplesWhenFleet(c, cfg, cs, ms) ==
    IF cfg.CollectUsages /\ DOMAIN ms.RDS.Instances # {}
    THEN << ApiCallSample(c, cs.UsageAPIcalls, "usage"),
            MustNewConstMetric(c.usageAllocatedStorage,
                ms.CloudWatchUsage.AllocatedStorage,
                <<awsAccountID, awsRegion>>),
            MustNewConstMetric(c.usageDBInstances,
                ms.CloudWatchUsage.DBInstances,
                <<awsAccountID, awsRegion>>),
            MustNewConstMetric(c.usageManualSnapshots,
                ms.CloudWatchUsage.ManualSnapshots,
                <<awsAccountID, awsRegion>>) >>
    ELSE <<>>

\* Collect, the usage metrics.
UsageSamples(c, cfg, cs, ms) ==
    IF cfg.CollectUsages
    THEN << ApiCallSample(c, cs.UsageAPIcalls, "usage"),
            MustNewConstMetric(c.usageAllocatedStorage,
                ms.CloudWatchUsage.AllocatedStorage,
                <<awsAccountID, awsRegion>>),
            MustNewConstMetric(c.usageDBInstances,
                ms.CloudWatchUsage.DBInstances,
                <<awsAccountID, awsRegion>>),
            MustNewConstMetric(c.usageManualSnapshots,
                ms.CloudWatchUsage.ManualSnapshots,
                <<awsAccountID, awsRegion>>) >>
    ELSE <<>>

\* EC2 samples whose API counter is sent only with an instance type.
EC2SamplesWhenAny(c, cs, ms) ==
    LET instances == ms.EC2.Instances
        types == SetToSeq(DOMAIN instances)
        l(t) == <<awsAccountID, awsRegion, t>>
    IN (IF types = <<>> THEN <<>>
        ELSE <<ApiCallSample(c, cs.EC2APIcalls, "ec2")>>)
       \o Flatten([i \in 1..Len(types) |->
            << MustNewConstMetric(c.instanceMaximumIops,
                   instances[types[i]].MaximumIops, l(types[i])),
               MustNewConstMetric(c.instanceMaximumThroughput,
                   instances[types[i]].MaximumThroughput, l(types[i])),
               MustNewConstMetric(c.instanceMemory,
                   instances[types[i]].Memory, l(types[i])),
               MustNewConstMetric(c.instanceVCPU,
                   instances[types[i]].Vcpu, l(types[i])) >>])

\* Collect, the loop over c.metrics.EC2.Instances with the ec2 API counter.
EC2Samples(c, cs, ms) ==
    LET instances == ms.EC2.Instances
        types == SetToSeq(DOMAIN instances)
        l(t) == <<awsAccountID, awsRegion, t>>
    IN <<ApiCallSample(c, cs.EC2APIcalls, "ec2")>>
       \o Flatten([i \in 1..Len(types) |->
            << MustNewConstMetric(c.instanceMaximumIops,
                   instances[types[i]].MaximumIops, l(types[i])),
               MustNewConstMetric(c.instanceMaximumThroughput,
                   instances[types[i]].MaximumThroughput, l(types[i])),
               MustNewConstMetric(c.instanceMemory,
                   instances[types[i]].Memory, l(types[i])),
               MustNewConstMetric(c.instanceVCPU,
                   instances[types[i]].Vcpu, l(types[i])) >>])

\* Collect, the serviceQuotas metrics.
QuotaSamples(c, cfg, cs, ms) ==
    IF cfg.CollectQuotas
    THEN << ApiCallSample(c, cs.ServiceQuotasAPICalls, "servicequotas"),
            MustNewConstMetric(c.quotaDBInstances,
                ms.ServiceQuota.DBinstances, <<awsAccountID, awsRegion>>),
            MustNewConstMetric(c.quotaTotalStorage,
                ms.ServiceQuota.TotalStorage, <<awsAccountID, awsRegion>>),
            MustNewConstMetric(c.quotaMaxDBInstanceSnapshots,
                ms.ServiceQuota.ManualDBInstanceSnapshots,
                <<awsAccountID, awsRegion>>) >>
    ELSE <<>>

\* Collect, everything sent after fetchMetrics has returned no error.
CollectTail(c, cfg, cs, ms, rev) ==
    <<UpSample(c, exporterUpStatusCode)>>
    \o RDSSamples(c, cfg, cs, ms, rev)
    \o CloudwatchSamples(c, cs, ms)
    \o UsageSamples(c, cfg, cs, ms)
    \o EC2Samples(c, cs, ms)
    \o QuotaSamples(c, cfg, cs, ms)

\* ------------------------------------------------- the upstream fetchers

\* The account's quotas and usage at the time of scrape s (they drift).
\* What the Service Quotas API reports at the time of scrape s: the storage
\* quota in GiB.
UpstreamQuotaAt(s) ==
    [DBinstances |-> 40 + s, TotalStorage |-> 1,
     ManualDBInstanceSnapshots |-> 100]

\* A conversion that takes a gigabyte for 10^9 bytes.
GigaBytesToBytesDecimal(v) == v * 1000000000

\* converter.GigaBytesToBytes
GigaBytesToBytes(v) == v * 1073741824

\* servicequotas GetRDSQuotas on what the upstream reports, with its
\* fetcher's statistic: [value, err, calls].
GetRDSQuotasFrom(fails, upstream) ==
    IF fails THEN [value |-> ZeroServiceQuota, err |-> TRUE, calls |-> 1]
    ELSE [value |->
              [DBinstances |-> upstream.DBinstances,
               TotalStorage |-> GigaBytesToBytes(upstream.TotalStorage),
               ManualDBInstanceSnapshots |->
                   upstream.ManualDBInstanceSnapshots],
          err |-> FALSE, calls |-> 3]

QuotaAt(s) == GetRDSQuotasFrom(FALSE, UpstreamQuotaAt(s)).value

UsageAt(s) ==
    [AllocatedStorage |-> 70 + s, DBInstances |-> s, ManualSnapshots |-> 3]

\* servicequotas GetRDSQuotas with its fetcher's statistic: [value, err, calls].
GetRDSQuotas(fails, s) == GetRDSQuotasFrom(fails, UpstreamQuotaAt(s))

\* cloudwatch GetUsageMetrics with its fetcher's statistic.
GetUsageMetrics(fails, s) ==
    IF fails THEN [value |-> ZeroUsage, err |-> TRUE, calls |-> 1]
    ELSE [value |-> UsageAt(s), err |-> FALSE, calls |-> 1]

\* The instance types the EC2 catalog knows.
EC2Catalog ==
    ("db.t3.small" :> [MaximumIops |-> 11800, MaximumThroughput |-> 260,
                       Memory |-> 2, Vcpu |-> 2])
    @@ ("db.t3.large" :> [MaximumIops |-> 15700, MaximumThroughput |-> 347,
                          Memory |-> 8, Vcpu |-> 2])

\* ec2 GetDBInstanceTypeInformation with its fetcher's statistic: the types
\* the catalog does not know are left out.
GetDBInstanceTypeInformation(fails, instanceTypes) ==
    IF fails THEN [value |-> [Instances |-> <<>>], err |-> TRUE, calls |-> 1]
    ELSE [value |-> [Instances |->
                        [t \in Range(instanceTypes) \cap DOMAIN EC2Catalog |->
                            EC2Catalog[t]]],
          err |-> FALSE, calls |-> 1]

\* rds GetInstancesMetrics with its fetcher's statistic.
GetInstancesMetrics(fails, instances) ==
    IF fails THEN [value |-> [Instances |-> <<>>], err |-> TRUE, calls |-> 1]
    ELSE [value |-> [Instances |-> instances], err |-> FALSE, calls |-> 1]

\* How CloudWatch may behave during one GetRDSInstanceMetrics over
\* dbIdentifiers: what it holds, and which GetMetricData call fails (0: none).
QueryCount(dbIdentifiers) == Len(dbIdentifiers) * Len(getCloudWatchMetricsName)

ChunkCount(dbIdentifiers) ==
    (QueryCount(dbIdentifiers) + MaxQueriesPerCloudwatchRequest - 1)
        \div MaxQueriesPerCloudwatchRequest

\* rev is the order of the range over the query map, which matters only
\* when the queries span several calls.
CloudWatchBehaviours(dbIdentifiers) ==
    [pattern : SeriesPatterns, failAt : 0..ChunkCount(dbIdentifiers),
     rev : IF ChunkCount(dbIdentifiers) > 1 THEN BOOLEAN ELSE {FALSE}]

\* ------------------------------------------------------------- the state

\* The Collect calls of a behaviour; MaxScrapes of them are made but over a
\* collector's lifetime.
Scrapes == 1..MaxLifetime

Kinds == {"quota", "usage", "ec2", "cloudwatch"}

\* The slot of the result container and the counter each subtask writes.
Slot ==
    [quota |-> "ServiceQuota", usage |-> "CloudWatchUsage", ec2 |-> "EC2",
     cloudwatch |-> "CloudwatchInstances"]

ApiCounter ==
    [quota |-> "ServiceQuotasAPICalls", usage |-> "UsageAPIcalls",
     ec2 |-> "EC2APIcalls", cloudwatch |-> "CloudwatchAPICalls"]

VARIABLES
    configuration,  \* c.configuration
    account,        \* the kind of account the clients talk to
    wg,             \* c.wg, its counter
    counters,       \* c.counters
    metrics,        \* c.metrics
    descs,          \* the descriptor fields of c
    panicked,       \* "" or the message of the panic that ended the process
    collects,       \* the Collect calls: position, locals, samples sent
    tasks,          \* the subtask goroutines of each Collect call
    twin,           \* c.metrics and c.counters had no subtask of the scrape
                    \* in progress failed (history, for comparisons)
    ctx,            \* the context of the HTTP request of each Collect call
    fetcher,        \* a fetcher of its own, not part of a collector, and the
                    \* call made on it
    process         \* the exporter process: where Execute and run are, the
                    \* registries, the exit code

vars ==
    << configuration, account, wg, counters, metrics, descs, panicked,
       collects, tasks, twin, ctx, fetcher, process >>

NoResult ==
    [err |-> FALSE, value |-> <<>>, calls |-> 0, okValue |-> <<>>,
     okCalls |-> 0, up |-> [pattern |-> "none", failAt |-> 0, rev |-> FALSE]]

NoTask == [pc |-> "none", arg |-> <<>>, res |-> NoResult, errorsRead |-> 0]

\* A request context that has not been cancelled.  sent and inFlight are
\* history: the samples sent and the fetches in flight when it was cancelled.
Background == [cancelled |-> FALSE, sent |-> 0, inFlight |-> {}]

\* No call of a fetcher outside a collector.
NoCall == [pc |-> "none"]

\* No exporter process around the collector.
NoProcess == [pc |-> "none"]

IdleCollect ==
    [pc |-> "idle", at |-> "", emitted |-> <<>>, twinEmitted |-> <<>>,
     inventory |-> "pending", instanceIdentifiers |-> <<>>,
     instanceTypes |-> <<>>, launched |-> {}]

RetiredCollect == [IdleCollect EXCEPT !.pc = "retired"]

Begun == {s \in Scrapes : collects[s].pc # "idle"}

\* The scrape in progress: the last one begun.
Current == Cardinality(Begun)

InitWith(configurations, accounts) ==
    /\ configuration \in configurations
    /\ account \in accounts
    /\ wg = 0
    /\ counters = ZeroCounters
    /\ metrics = ZeroMetrics
    /\ descs = NewCollector
    /\ panicked = ""
    /\ collects = [s \in Scrapes |-> IdleCollect]
    /\ tasks = [s \in Scrapes |-> [k \in Kinds |-> NoTask]]
    /\ twin = [metrics |-> ZeroMetrics, counters |-> ZeroCounters]
    /\ ctx = [s \in Scrapes |-> Background]
    /\ fetcher = NoCall
    /\ process = NoProcess

\* The subtasks a configuration enables.
Enabled(cfg) ==
    {k \in Kinds :
        CASE k = "quota" -> cfg.CollectQuotas
          [] k = "usage" -> cfg.CollectUsages
          [] k = "ec2" -> cfg.CollectInstanceTypes
          [] k = "cloudwatch" -> cfg.CollectInstanceMetrics}

\* The configurations that enable at most n subtasks.
UpTo(n) == {cfg \in Configurations : Cardinality(Enabled(cfg)) <= n}

Init == InitWith(UpTo(MaxSubtasks), {"small"})

\* ------------------------------------------------------- the main task

\* A Collect call begins: the build information and the error counter are
\* sent, and fetchMetrics is entered.  The calls that have returned leave
\* the state with their finished goroutines.
Enter(s) ==
    /\ collects' =
         [x \in Scrapes |->
            IF x = s
            THEN [IdleCollect EXCEPT !.pc = "go", !.at = "quota",
                                     !.emitted = CollectHead(descs, counters),
                                     !.twinEmitted = CollectHead(descs, counters)]
            ELSE IF collects[x].pc = "done" THEN RetiredCollect
            ELSE collects[x]]
    /\ tasks' =
         [x \in Scrapes |->
            [k \in Kinds |->
               IF collects[x].pc = "done" /\ tasks[x][k].pc = "done"
               THEN NoTask ELSE tasks[x][k]]]
    /\ twin' = [metrics |-> metrics, counters |-> counters]
    /\ UNCHANGED <<process, ctx, fetcher, configuration, account, wg, counters, metrics, descs,
                   panicked>>

\* Collect is called after the previous call has returned.
Collect(s) ==
    /\ panicked = ""
    /\ s = Current + 1
    /\ s <= MaxScrapes
    /\ \A x \in Begun : collects[x].pc \in {"done", "retired"}
    /\ Enter(s)

\* Collect is called, possibly while earlier calls are running.
CollectConcurrently(s) ==
    /\ panicked = ""
    /\ s = Current + 1
    /\ s <= MaxScrapes
    /\ Enter(s)

\* The stage fetchMetrics goes to after the stage of kind k.
AfterStage(k) ==
    CASE k = "quota" -> [pc |-> "go", at |-> "usage"]
      [] k = "usage" -> [pc |-> "inventory", at |-> ""]
      [] k = "ec2" -> [pc |-> "go", at |-> "cloudwatch"]
      [] k = "cloudwatch" -> [pc |-> "wait", at |-> ""]

\* A launch that looks at the configuration only.
LaunchConditionFlagOnly(k, c) == k \in Enabled(configuration)

\* The condition of the if statement that launches the subtask of kind k.
LaunchCondition(k, c) ==
    CASE k = "quota" -> configuration.CollectQuotas
      [] k = "usage" -> configuration.CollectUsages
      [] k = "ec2" -> configuration.CollectInstanceTypes
                        /\ Len(c.instanceTypes) > 0
      [] k = "cloudwatch" -> configuration.CollectInstanceMetrics

\* Go statements that pass the identifiers to the instance-type subtask and
\* the instance classes to the time-series subtask.
LaunchArgumentSwapped(k, c) ==
    CASE k = "ec2" -> c.instanceIdentifiers
      [] k = "cloudwatch" -> c.instanceTypes
      [] OTHER -> <<>>

\* The arguments the go statement passes to the subtask of kind k.
LaunchArgument(k, c) ==
    CASE k = "ec2" -> c.instanceTypes
      [] k = "cloudwatch" -> c.instanceIdentifiers
      [] OTHER -> <<>>

\* fetchMetrics: an if statement with its go statement.
Launch(s) ==
    LET c == collects[s]
        k == c.at
    IN
    /\ panicked = ""
    /\ c.pc = "go"
    /\ IF LaunchCondition(k, c)
       THEN /\ tasks' = [tasks EXCEPT ![s][k] =
                           [NoTask EXCEPT !.pc = "ready",
                                          !.arg = LaunchArgument(k, c)]]
            /\ collects' = [collects EXCEPT ![s].pc = "add",
                                            ![s].launched = @ \cup {k}]
       ELSE /\ tasks' = tasks
            /\ collects' = [collects EXCEPT ![s].pc = AfterStage(k).pc,
                                            ![s].at = AfterStage(k).at]
    /\ UNCHANGED <<process, ctx, fetcher, configuration, account, wg, counters, metrics, descs,
                   panicked, twin>>

\* fetchMetrics: c.wg.Add(1), after the go statement.
Add(s) ==
    LET c == collects[s] IN
    /\ panicked = ""
    /\ c.pc = "add"
    /\ wg' = wg + 1
    /\ collects' = [collects EXCEPT ![s].pc = AfterStage(c.at).pc,
                                    ![s].at = AfterStage(c.at).at]
    /\ UNCHANGED <<process, ctx, fetcher, configuration, account, counters, metrics, descs,
                   panicked, tasks, twin>>

\* fetchMetrics: what it stores after GetInstancesMetrics has succeeded.
StoreInventory(m, r) == [m EXCEPT !.RDS = r.value]

CountInventory(cs, r) == [cs EXCEPT !.RDSAPIcalls = @ + r.calls]

\* An inventory fetch whose failure increments the error counter.
InventoryCountingError(s) ==
    /\ panicked = ""
    /\ collects[s].pc = "inventory"
    /\ \E fails \in BOOLEAN, instances \in Inventories[account] :
         LET r == GetInstancesMetrics(fails, instances)
             u == getUniqTypeAndIdentifiers(r.value.Instances)
         IN
         IF r.err
         THEN /\ collects' =
                   [collects EXCEPT
                      ![s].pc = "done", ![s].inventory = "failed",
                      ![s].emitted =
                          @ \o <<UpSample(descs, exporterDownStatusCode)>>,
                      ![s].twinEmitted =
                          @ \o <<UpSample(descs, exporterDownStatusCode)>>]
              /\ counters' = [counters EXCEPT !.Errors = @ + 1]
              /\ UNCHANGED <<metrics, twin>>
         ELSE /\ collects' =
                   [collects EXCEPT
                      ![s].pc = "go", ![s].at = "ec2", ![s].inventory = "ok",
                      ![s].instanceIdentifiers = u.instanceIdentifiers,
                      ![s].instanceTypes = u.instanceTypes]
              /\ metrics' = StoreInventory(metrics, r)
              /\ counters' = CountInventory(counters, r)
              /\ twin' = [metrics |-> StoreInventory(twin.metrics, r),
                          counters |-> CountInventory(twin.counters, r)]
    /\ UNCHANGED <<process, ctx, fetcher, configuration, account, wg, descs, panicked, tasks>>

\* fetchMetrics from GetInstancesMetrics to the computation of the
\* identifiers and types; on an error fetchMetrics returns, and Collect sends
\* up = 0 and returns.
Inventory(s) ==
    /\ panicked = ""
    /\ collects[s].pc = "inventory"
    /\ \E fails \in BOOLEAN, instances \in Inventories[account] :
         LET r == GetInstancesMetrics(fails, instances)
             u == getUniqTypeAndIdentifiers(r.value.Instances)
         IN
         IF r.err
         THEN /\ collects' =
                   [collects EXCEPT
                      ![s].pc = "done", ![s].inventory = "failed",
                      ![s].emitted =
                          @ \o <<UpSample(descs, exporterDownStatusCode)>>,
                      ![s].twinEmitted =
                          @ \o <<UpSample(descs, exporterDownStatusCode)>>]
              /\ UNCHANGED <<process, metrics, counters, twin>>
         ELSE /\ collects' =
                   [collects EXCEPT
                      ![s].pc = "go", ![s].at = "ec2", ![s].inventory = "ok",
                      ![s].instanceIdentifiers = u.instanceIdentifiers,
                      ![s].instanceTypes = u.instanceTypes]
              /\ metrics' = StoreInventory(metrics, r)
              /\ counters' = CountInventory(counters, r)
              /\ twin' = [metrics |-> StoreInventory(twin.metrics, r),
                          counters |-> CountInventory(twin.counters, r)]
    /\ UNCHANGED <<process, ctx, fetcher, configuration, account, wg, descs, panicked, tasks>>

\* fetchMetrics: c.wg.Wait() is called; it returns at once when the counter
\* is zero and blocks otherwise.
Wait(s) ==
    /\ panicked = ""
    /\ collects[s].pc = "wait"
    /\ collects' = [collects EXCEPT ![s].pc =
                       IF wg = 0 THEN "emit" ELSE "blocked"]
    /\ UNCHANGED <<process, ctx, fetcher, configuration, account, wg, counters, metrics, descs,
                   panicked, tasks, twin>>

\* c.wg.Wait() returns in a task the counter reaching zero has released: it
\* panics when the counter is no longer zero.
Resume(s) ==
    /\ panicked = ""
    /\ collects[s].pc = "woken"
    /\ IF wg # 0
       THEN /\ panicked' = "sync: WaitGroup is reused before previous Wait has returned"
            /\ collects' = collects
       ELSE /\ panicked' = panicked
            /\ collects' = [collects EXCEPT ![s].pc = "emit"]
    /\ UNCHANGED <<process, ctx, fetcher, configuration, account, wg, counters, metrics, descs,
                   tasks, twin>>

\* Collect after fetchMetrics has returned no error: every sample from up = 1
\* on is sent, and Collect returns.
Emit(s) ==
    /\ panicked = ""
    /\ collects[s].pc = "emit"
    /\ \E rev \in BOOLEAN :
         LET sent == CollectTail(descs, configuration, counters, metrics, rev)
         IN
         /\ collects' =
              [collects EXCEPT
                 ![s].pc = "done",
                 ![s].emitted = @ \o sent,
                 ![s].twinEmitted =
                     @ \o CollectTail(descs, configuration, twin.counters,
                                      twin.metrics, rev)]
         /\ descs' = [descs EXCEPT !.instanceTags =
                         InstanceTagsAfter(descs, configuration, metrics, rev)]
         /\ panicked' =
              IF \E i \in 1..Len(sent) : ConstMetricPanics(sent[i])
              THEN "inconsistent label cardinality" ELSE panicked
    /\ UNCHANGED <<process, ctx, fetcher, configuration, account, wg, counters, metrics, tasks, twin>>

\* ---------------------------------------------------------- the subtasks

\* What GetRDSInstanceMetrics may return for dbIdentifiers, with what it
\* would have returned had CloudWatch not failed.
CloudWatchResults(dbIdentifiers) ==
    {LET r == GetRDSInstanceMetrics(dbIdentifiers,
                                    MapOrder(dbIdentifiers, up.rev), up)
         ok == GetRDSInstanceMetrics(dbIdentifiers,
                                     MapOrder(dbIdentifiers, up.rev),
                                     [up EXCEPT !.failAt = 0])
     IN [err |-> r.err, value |-> [Instances |-> r.Instances],
         calls |-> r.CloudWatchAPICall,
         okValue |-> [Instances |-> ok.Instances],
         okCalls |-> ok.CloudWatchAPICall, up |-> up] :
        up \in CloudWatchBehaviours(dbIdentifiers)}

\* The lists of identifiers fetchMetrics may pass to getCloudwatchMetrics.
IdentifierLists ==
    {getUniqTypeAndIdentifiers(i).instanceIdentifiers :
        i \in Inventories.small \cup Inventories.large}

\* CloudWatchResults, computed once for each list of identifiers.
RECURSIVE ResultsTable(_)
ResultsTable(lists) ==
    IF lists = {} THEN <<>>
    ELSE LET l == CHOOSE x \in lists : TRUE
         IN (l :> CloudWatchResults(l)) @@ ResultsTable(lists \ {l})

CloudWatchFetches == ResultsTable(IdentifierLists)

\* What the fetcher of a subtask of kind k of scrape s may return: the
\* result, and what it would have been had the upstream not failed.
FetchResults(k, s, arg) ==
    LET mk(r, ok, up) ==
            [err |-> r.err, value |-> r.value, calls |-> r.calls,
             okValue |-> ok.value, okCalls |-> ok.calls, up |-> up]
        none == NoResult.up
    IN
    CASE k = "quota" ->
           {mk(GetRDSQuotas(f, s), GetRDSQuotas(FALSE, s), none) :
               f \in BOOLEAN}
      [] k = "usage" ->
           {mk(GetUsageMetrics(f, s), GetUsageMetrics(FALSE, s), none) :
               f \in BOOLEAN}
      [] k = "ec2" ->
           {mk(GetDBInstanceTypeInformation(f, arg),
               GetDBInstanceTypeInformation(FALSE, arg), none) :
               f \in BOOLEAN}
      [] k = "cloudwatch" -> CloudWatchFetches[arg]

\* A subtask up to the return of its fetcher; on an error it goes on to
\* c.counters.Errors++, whose load of the counter is taken here.
Fetch(s, k) ==
    /\ panicked = ""
    /\ tasks[s][k].pc = "ready"
    /\ \E r \in FetchResults(k, s, tasks[s][k].arg) :
         tasks' = [tasks EXCEPT ![s][k].pc = "fetched",
                                ![s][k].res = r,
                                ![s][k].errorsRead = counters.Errors]
    /\ UNCHANGED <<process, ctx, fetcher, configuration, account, wg, counters, metrics, descs,
                   panicked, collects, twin>>

\* A subtask: the store of c.counters.Errors++ after an error, and the
\* addition of the fetcher's statistic to the subtask's counter.
CountResult(cs, k, r, errorsRead) ==
    LET cs1 == IF r.err THEN [cs EXCEPT !.Errors = errorsRead + 1] ELSE cs
    IN [cs1 EXCEPT ![ApiCounter[k]] = @ + r.calls]

\* A subtask that, on an error, replaces the whole container by an empty one
\* instead of assigning its own slot.
StoreResultOrReset(m, k, r) ==
    IF r.err THEN ZeroMetrics ELSE [m EXCEPT ![Slot[k]] = r.value]

\* A subtask that empties the inventory's slot when it assigns its own.
StoreResultAndClearRDS(m, k, r) ==
    [m EXCEPT ![Slot[k]] = r.value, !.RDS = ZeroMetrics.RDS]

\* A subtask: the assignment of its result to its slot of c.metrics.
StoreResult(m, k, r) == [m EXCEPT ![Slot[k]] = r.value]

\* The result of a subtask in the run in which no subtask of the scrape in
\* progress fails.
TwinResult(s, r) ==
    IF s = Current
    THEN [r EXCEPT !.err = FALSE, !.value = r.okValue, !.calls = r.okCalls]
    ELSE r

\* A subtask from the return of its fetcher to its end, where the deferred
\* c.wg.Done() runs: it panics when the counter would become negative, and
\* releases the waiting tasks when the counter becomes zero.
Finish(s, k) ==
    LET t == tasks[s][k] IN
    /\ panicked = ""
    /\ t.pc = "fetched"
    /\ counters' = CountResult(counters, k, t.res, t.errorsRead)
    /\ metrics' = StoreResult(metrics, k, t.res)
    /\ twin' = [metrics |-> StoreResult(twin.metrics, k, TwinResult(s, t.res)),
                counters |-> CountResult(twin.counters, k,
                                         TwinResult(s, t.res), t.errorsRead)]
    /\ tasks' = [tasks EXCEPT ![s][k].pc = "done"]
    /\ wg' = wg - 1
    /\ panicked' = IF wg' < 0 THEN "sync: negative WaitGroup counter"
                   ELSE panicked
    /\ collects' =
         [x \in Scrapes |->
            IF wg' = 0 /\ collects[x].pc = "blocked"
            THEN [collects[x] EXCEPT !.pc = "woken"]
            ELSE collects[x]]
    /\ UNCHANGED <<process, ctx, fetcher, configuration, account, descs>>

\* ------------------------------------------------------ specifications

\* Scrapes one after the other.
Next ==
    \/ \E s \in Scrapes : Collect(s)
    \/ \E s \in Scrapes : Launch(s)
    \/ \E s \in Scrapes : Add(s)
    \/ \E s \in Scrapes : Inventory(s)
    \/ \E s \in Scrapes : Wait(s)
    \/ \E s \in Scrapes : Resume(s)
    \/ \E s \in Scrapes : Emit(s)
    \/ \E s \in Scrapes, k \in Kinds : Fetch(s, k)
    \/ \E s \in Scrapes, k \in Kinds : Finish(s, k)

Spec == Init /\ [][Next]_vars

\* Scrapes that may overlap: the registry calls Collect from the goroutine of
\* each HTTP request.
InitConcurrently == InitWith(UpTo(MaxSubtasksConcurrently), {"small"})

NextConcurrently ==
    \/ \E s \in Scrapes : CollectConcurrently(s)
    \/ \E s \in Scrapes : Launch(s)
    \/ \E s \in Scrapes : Add(s)
    \/ \E s \in Scrapes : Inventory(s)
    \/ \E s \in Scrapes : Wait(s)
    \/ \E s \in Scrapes : Resume(s)
    \/ \E s \in Scrapes : Emit(s)
    \/ \E s \in Scrapes, k \in Kinds : Fetch(s, k)
    \/ \E s \in Scrapes, k \in Kinds : Finish(s, k)

SpecConcurrently == InitConcurrently /\ [][NextConcurrently]_vars

\* Scrapes one after the other of an account with a fleet whose time-series
\* queries span several GetMetricData calls.
InitFleet ==
    InitWith({cfg \in Configurations :
                 Enabled(cfg) = {"cloudwatch"} /\ ~cfg.CollectInstanceTags},
             {"large"})

SpecFleet == InitFleet /\ [][Next]_vars

\* Scrapes one after the other of an account whose instances carry tags of
\* every kind, with the quotas collected.
InitTags ==
    InitWith({cfg \in Configurations : Enabled(cfg) = {"quota"}}, {"tagged"})

SpecTags == InitTags /\ [][Next]_vars

\* ------------------------------------------ the quota fetcher on its own

\* What the Service Quotas API may report: the DB instances quota, the total
\* storage quota in GiB and the manual snapshots quota.
UpstreamQuotas ==
    [DBinstances : 0..9, TotalStorage : {0, 1},
     ManualDBInstanceSnapshots : {0, 50, 100}]

\* A fetcher made by servicequotas.NewFetcher, about to be called while the
\* upstream reports the quotas, or fails.
NewFetcher(upstream, fails) ==
    [pc |-> "ready", upstream |-> upstream, fails |-> fails,
     result |-> ZeroServiceQuota, err |-> FALSE]

InitQuotas ==
    /\ configuration \in {cfg \in UpTo(0) : ~cfg.CollectInstanceTags}
    /\ account = "small"
    /\ wg = 0
    /\ counters = ZeroCounters
    /\ metrics = ZeroMetrics
    /\ descs = NewCollector
    /\ panicked = ""
    /\ collects = [s \in Scrapes |-> IdleCollect]
    /\ tasks = [s \in Scrapes |-> [k \in Kinds |-> NoTask]]
    /\ twin = [metrics |-> ZeroMetrics, counters |-> ZeroCounters]
    /\ ctx = [s \in Scrapes |-> Background]
    /\ fetcher \in {NewFetcher(u, f) : u \in UpstreamQuotas, f \in BOOLEAN}
    /\ process = NoProcess

\* GetRDSQuotas is called on the fetcher and returns.
CallGetRDSQuotas ==
    /\ fetcher.pc = "ready"
    /\ LET r == GetRDSQuotasFrom(fetcher.fails, fetcher.upstream)
       IN fetcher' = [fetcher EXCEPT !.pc = "returned", !.result = r.value,
                                     !.err = r.err]
    /\ UNCHANGED <<process, ctx, configuration, account, wg, counters, metrics, descs,
                   panicked, collects, tasks, twin>>

NextQuotas == CallGetRDSQuotas

SpecQuotas == InitQuotas /\ [][NextQuotas]_vars

\* -------------------------------------------------- the exporter process

configErrorExitCode == 1

httpErrorExitCode == 2

exporterErrorExitCode == 3

awsErrorExitCode == 4

\* The exit status of a Go program whose main returns.
ReturnedExitCode == 0

\* The exit status of a Go program that ends in a panic.
PanicExitCode == 2

\* NewRootCommand: the flags it defines.
DefinedFlags ==
    { "config", "debug", "log-format", "metrics-path", "tls-cert-path",
      "tls-key-path", "listen-address", "aws-assume-role-arn",
      "aws-assume-role-session", "collect-instance-tags",
      "collect-instance-types", "collect-instance-metrics",
      "collect-logs-size", "collect-maintenances", "collect-quotas",
      "collect-usages", "aws-regions" }

\* NewRootCommand: the keys it binds to their flags with viper.BindPFlag, in
\* order.
BoundFlags ==
    << "debug", "log-format", "metrics-path", "tls-cert-path", "tls-key-path",
       "listen-address", "aws-assume-role-arn", "aws-assume-role-session",
       "collect-instance-metrics", "collect-instance-tags",
       "collect-instance-types", "collect-quotas", "collect-usages",
       "collect-logs-size", "collect-maintenances" >>

\* viper.BindPFlag(key, cmd.Flags().Lookup(key)): an error when the flag
\* does not exist.
BindPFlagFails(key) == key \notin DefinedFlags

\* NewRootCommand: the error it returns.
NewRootCommandFails == \E i \in 1..Len(BoundFlags) : BindPFlagFails(BoundFlags[i])

\* The region of the flag's default and of initConfig.
DefaultRegions == <<"ap-northeast-2">>

\* The lists of regions an operator may give for aws-regions.
RegionLists ==
    { <<>>, <<"eu-west-1">>, <<"us-east-1">>, <<"eu-west-1", "us-east-1">>,
      <<"us-east-1", "eu-west-1">>, <<"eu-west-1", "eu-west-1">>,
      <<"eu-west-1", "us-east-1", "eu-west-1">> }

\* A value is given on the command line or in the configuration file.
Sources == {"flag", "file"}

\* viper's value of a key: the flag's value when the key is bound to a flag
\* given on the command line, else the value of the configuration file,
\* else nothing.
ViperGet(key, given) ==
    IF key \in Range(BoundFlags) /\ key \in DOMAIN given.flag
    THEN given.flag[key]
    ELSE IF key \in DOMAIN given.file THEN given.file[key]
    ELSE <<>>

\* initConfig: the value it sets for aws-regions.
initConfig(given) ==
    LET regions == ViperGet("aws-regions", given)
    IN IF Len(regions) = 0 THEN DefaultRegions ELSE regions

\* viper.Unmarshal into exporterConfig after initConfig: the fields used.
Unmarshal(given) ==
    [AWSRegions |-> initConfig(given),
     TLSCertPath |-> ViperGet("tls-cert-path", given),
     TLSKeyPath |-> ViperGet("tls-key-path", given)]

\* What the operator gives: aws-regions from one source, and the TLS paths
\* on the command line.
Given(source, regions, cert, key) ==
    LET flags == ("tls-cert-path" :> cert) @@ ("tls-key-path" :> key)
    IN IF source = "flag"
       THEN [flag |-> ("aws-regions" :> regions) @@ flags, file |-> <<>>]
       ELSE [flag |-> flags, file |-> ("aws-regions" :> regions)]

\* A process about to call Execute.  failures is history: the errors met.
Started(given, listed, badArguments, decodeFails, loggerFails) ==
    [pc |-> "Execute", given |-> given, listed |-> listed,
     badArguments |-> badArguments, decodeFails |-> decodeFails,
     loggerFails |-> loggerFails,
     configuration |-> [AWSRegions |-> <<>>, TLSCertPath |-> "",
                        TLSKeyPath |-> ""],
     next |-> 1, registries |-> <<>>, scheme |-> "", exitCode |-> -1,
     failures |-> {},
     gathered |-> [metrics |-> <<>>, err |-> FALSE, failed |-> {},
                   order |-> <<>>]]

InitProcess ==
    /\ configuration \in {cfg \in UpTo(0) : ~cfg.CollectInstanceTags}
    /\ account = "small"
    /\ wg = 0
    /\ counters = ZeroCounters
    /\ metrics = ZeroMetrics
    /\ descs = NewCollector
    /\ panicked = ""
    /\ collects = [s \in Scrapes |-> IdleCollect]
    /\ tasks = [s \in Scrapes |-> [k \in Kinds |-> NoTask]]
    /\ twin = [metrics |-> ZeroMetrics, counters |-> ZeroCounters]
    /\ ctx = [s \in Scrapes |-> Background]
    /\ fetcher = NoCall
    /\ process \in
         {Started(Given(source, regions, cert, key), regions, b, d, l) :
             source \in Sources, regions \in RegionLists,
             cert \in {"", "/tls/cert.pem"}, key \in {"", "/tls/key.pem"},
             b \in BOOLEAN, d \in BOOLEAN, l \in BOOLEAN}

\* os.Exit(code) after an error of the kind.
Exit(p, code, kind) ==
    [p EXCEPT !.pc = "exited", !.exitCode = code,
              !.failures = @ \cup {kind}]

\* Execute: NewRootCommand, and the exit on its error.
ExecuteNewRootCommand ==
    /\ process.pc = "Execute"
    /\ process' =
         IF NewRootCommandFails
         THEN Exit(process, configErrorExitCode, "configuration")
         ELSE [process EXCEPT !.pc = "cmd.Execute"]
    /\ UNCHANGED <<ctx, fetcher, configuration, account, wg, counters,
                   metrics, descs, panicked, collects, tasks, twin>>

\* Execute: cmd.Execute(), which parses the arguments, runs initConfig and
\* then the command's Run up to the call of run: on an error of cobra the
\* process exits; when viper.Unmarshal fails Run returns, cmd.Execute
\* returns nil and Execute and main return.
ExecuteCommand ==
    /\ process.pc = "cmd.Execute"
    /\ process' =
         IF process.badArguments
         THEN Exit(process, exporterErrorExitCode, "command")
         ELSE IF process.decodeFails
         THEN Exit(process, ReturnedExitCode, "decode")
         ELSE [process EXCEPT !.pc = "run",
                              !.configuration = Unmarshal(process.given)]
    /\ UNCHANGED <<ctx, fetcher, configuration, account, wg, counters,
                   metrics, descs, panicked, collects, tasks, twin>>

\* run: logger.New, and the panic on its error.
NewLogger ==
    /\ process.pc = "run"
    /\ process' =
         IF process.loggerFails
         THEN Exit(process, PanicExitCode, "logger")
         ELSE [process EXCEPT !.pc = "regions", !.next = 1]
    /\ UNCHANGED <<ctx, fetcher, configuration, account, wg, counters,
                   metrics, descs, panicked, collects, tasks, twin>>

\* prometheus.NewRegistry
NewRegistry == [collectors |-> <<>>]

\* run: the registry made for the collector of a region.
RegistryFor(registries, region) == NewRegistry

\* registry.Register(collector): an error when descriptors of the collector
\* are registered already; the collectors of all regions have the same
\* descriptors.
Register(registry, collector) ==
    IF registry.collectors # <<>>
    THEN [err |-> TRUE, registry |-> registry]
    ELSE [err |-> FALSE,
          registry |-> [collectors |-> Append(registry.collectors, collector)]]

\* run: one iteration of the loop over configuration.AWSRegions.
InitializeRegion ==
    /\ process.pc = "regions"
    /\ process.next <= Len(process.configuration.AWSRegions)
    /\ \E configFails \in BOOLEAN, sessionFails \in BOOLEAN :
         LET region == process.configuration.AWSRegions[process.next]
             collector == [awsRegion |-> region]
             r == Register(RegistryFor(process.registries, region), collector)
         IN
         process' =
              IF configFails THEN Exit(process, awsErrorExitCode, "aws")
              ELSE IF sessionFails THEN Exit(process, awsErrorExitCode, "aws")
              ELSE IF r.err THEN [process EXCEPT !.next = @ + 1]
              ELSE [process EXCEPT
                      !.next = @ + 1,
                      !.registries = (region :> r.registry) @@ @]
    /\ UNCHANGED <<ctx, fetcher, configuration, account, wg, counters,
                   metrics, descs, panicked, collects, tasks, twin>>

\* run: the handler is installed and server.ListenAndServe() is called.
ListenAndServe ==
    /\ process.pc = "regions"
    /\ process.next > Len(process.configuration.AWSRegions)
    /\ process' = [process EXCEPT !.pc = "serving", !.scheme = "http"]
    /\ UNCHANGED <<ctx, fetcher, configuration, account, wg, counters,
                   metrics, descs, panicked, collects, tasks, twin>>

\* run: server.ListenAndServe() returns an error.
ServerError ==
    /\ process.pc = "serving"
    /\ process' = Exit(process, httpErrorExitCode, "http")
    /\ UNCHANGED <<ctx, fetcher, configuration, account, wg, counters,
                   metrics, descs, panicked, collects, tasks, twin>>

\* The metric families registry.Gather() returns for the collector of a
\* region.
Families(region) ==
    << [name |-> "up", region |-> region],
       [name |-> "rds_exporter_build_info", region |-> region] >>

\* A gatherer that returns the error of the first registry that fails.
RECURSIVE GathererFuncFailFast(_, _, _)
GathererFuncFailFast(registries, order, failing) ==
    IF order = <<>> THEN [metrics |-> <<>>, err |-> FALSE]
    ELSE IF Head(order) \in failing THEN [metrics |-> <<>>, err |-> TRUE]
    ELSE LET rest == GathererFuncFailFast(registries, Tail(order), failing)
         IN [metrics |-> Families(Head(order)) \o rest.metrics,
             err |-> rest.err]

\* The function given to prometheus.GathererFunc: the registries are visited
\* in order, those of failing gather with an error.
RECURSIVE GathererFunc(_, _, _)
GathererFunc(registries, order, failing) ==
    IF order = <<>> THEN [metrics |-> <<>>, err |-> FALSE]
    ELSE LET rest == GathererFunc(registries, Tail(order), failing)
         IN IF Head(order) \in failing THEN rest
            ELSE [metrics |-> Families(Head(order)) \o rest.metrics,
                  err |-> rest.err]

\* A scrape of the serving process: the gatherer is called.
Gather ==
    /\ process.pc = "serving"
    /\ \E failing \in SUBSET DOMAIN process.registries, rev \in BOOLEAN :
         LET order == RangeOrder(DOMAIN process.registries, rev)
             r == GathererFunc(process.registries, order, failing)
         IN process' =
              [process EXCEPT
                 !.gathered = [metrics |-> r.metrics, err |-> r.err,
                               failed |-> failing, order |-> order]]
    /\ UNCHANGED <<ctx, fetcher, configuration, account, wg, counters,
                   metrics, descs, panicked, collects, tasks, twin>>

NextProcess ==
    \/ ExecuteNewRootCommand
    \/ ExecuteCommand
    \/ NewLogger
    \/ InitializeRegion
    \/ ListenAndServe
    \/ ServerError
    \/ Gather

SpecProcess == InitProcess /\ [][NextProcess]_vars

\* --------------------------------------------- a collector's lifetime

\* The subtasks that have been launched and have not finished: they can
\* still write a counter.
Running ==
    {<<s, k>> \in Scrapes \X Kinds : tasks[s][k].pc \in {"ready", "fetched"}}

\* Collect is called after the previous call has returned, over the
\* lifetime of the collector, while few subtasks of earlier calls are still
\* running.
CollectLifetime(s) ==
    /\ panicked = ""
    /\ Cardinality(Running) <= MaxStragglers
    /\ s = Current + 1
    /\ \A x \in Begun : collects[x].pc \in {"done", "retired"}
    /\ Enter(s)

\* A collector of quotas in an account without instances, over its lifetime.
InitLifetime ==
    InitWith({cfg \in Configurations :
                 Enabled(cfg) = {"quota"} /\ ~cfg.CollectInstanceTags},
             {"empty"})

NextLifetime ==
    \/ \E s \in Scrapes : CollectLifetime(s)
    \/ \E s \in Scrapes : Launch(s)
    \/ \E s \in Scrapes : Add(s)
    \/ \E s \in Scrapes : Inventory(s)
    \/ \E s \in Scrapes : Wait(s)
    \/ \E s \in Scrapes : Resume(s)
    \/ \E s \in Scrapes : Emit(s)
    \/ \E s \in Scrapes, k \in Kinds : Fetch(s, k)
    \/ \E s \in Scrapes, k \in Kinds : Finish(s, k)

SpecLifetime == InitLifetime /\ [][NextLifetime]_vars

\* ------------------------------------------------ cancelled requests

\* The context of the HTTP request served by Collect call s is cancelled
\* while a fetch of the call is in flight.  Collect is not given the
\* context, and the fetchers are called without one (GetMetricData with
\* context.TODO()): nothing but the context changes.
Cancel(s) ==
    LET inFlight ==
            {k \in Kinds : tasks[s][k].pc = "ready"}
            \cup (IF collects[s].pc = "inventory" THEN {"inventory"} ELSE {})
    IN
    /\ panicked = ""
    /\ ~ctx[s].cancelled
    /\ collects[s].pc \notin {"idle", "done", "retired"}
    /\ inFlight # {}
    /\ ctx' = [ctx EXCEPT ![s] =
                  [cancelled |-> TRUE, sent |-> Len(collects[s].emitted),
                   inFlight |-> inFlight]]
    /\ UNCHANGED <<process, fetcher, configuration, account, wg, counters, metrics,
                   descs, panicked, collects, tasks, twin>>

\* Scrapes one after the other, with the time-series subtask at most, whose
\* requests may be cancelled.
InitCancelled ==
    InitWith({cfg \in Configurations : Enabled(cfg) \subseteq {"cloudwatch"}},
             {"small"})

NextCancelled ==
    \/ \E s \in Scrapes : Collect(s)
    \/ \E s \in Scrapes : Launch(s)
    \/ \E s \in Scrapes : Add(s)
    \/ \E s \in Scrapes : Inventory(s)
    \/ \E s \in Scrapes : Wait(s)
    \/ \E s \in Scrapes : Resume(s)
    \/ \E s \in Scrapes : Emit(s)
    \/ \E s \in Scrapes, k \in Kinds : Fetch(s, k)
    \/ \E s \in Scrapes, k \in Kinds : Finish(s, k)
    \/ \E s \in Scrapes : Cancel(s)

SpecCancelled == InitCancelled /\ [][NextCancelled]_vars

\* ----------------------------------------------- the fetcher on its own

\* The identifiers db-1 .. db-n.
Fleet(n) == Tuple([i \in 1..n |-> FleetIdentifier(i)])

\* The lists GetRDSInstanceMetrics is called with: the short lists over two
\* identifiers, an identifier twice among them, and fleets whose queries
\* fill one, two and three requests, one of them with an identifier twice,
\* and the fleet whose queries fill whole requests.
FetcherInputs ==
    {<<>>}
    \cup {<<a>> : a \in {"db-a", "db-b"}}
    \cup {<<a, b>> : a \in {"db-a", "db-b"}, b \in {"db-a", "db-b"}}
    \cup {Fleet(FleetSize - 1), Fleet(FleetSize),
          Append(Fleet(FleetSize - 1), FleetIdentifier(1)),
          Fleet(2 * FleetSize - 1), Fleet(2 * FleetSize),
          Fleet(WholeChunksFleet)}

\* A fetcher made by NewRDSFetcher, about to be called with dbIdentifiers
\* while CloudWatch behaves as up.
NewRDSFetcher(dbIdentifiers, up) ==
    [pc |-> "ready", dbIdentifiers |-> dbIdentifiers, up |-> up,
     requests |-> <<>>, sent |-> <<>>, CloudWatchAPICall |-> 0,
     Instances |-> <<>>, err |-> FALSE]

InitFetcher ==
    /\ configuration \in {cfg \in UpTo(0) : ~cfg.CollectInstanceTags}
    /\ account = "small"
    /\ wg = 0
    /\ counters = ZeroCounters
    /\ metrics = ZeroMetrics
    /\ descs = NewCollector
    /\ panicked = ""
    /\ collects = [s \in Scrapes |-> IdleCollect]
    /\ tasks = [s \in Scrapes |-> [k \in Kinds |-> NoTask]]
    /\ twin = [metrics |-> ZeroMetrics, counters |-> ZeroCounters]
    /\ ctx = [s \in Scrapes |-> Background]
    /\ fetcher \in {NewRDSFetcher(d, up) :
                       d \in FetcherInputs, up \in
                           UNION {CloudWatchBehaviours(x) : x \in FetcherInputs}}
    /\ fetcher.up \in CloudWatchBehaviours(fetcher.dbIdentifiers)
    /\ process = NoProcess

\* GetRDSInstanceMetrics is called on the fetcher and returns: the query map
\* it generated, the chunks it sent, its statistic and its result are kept.
CallGetRDSInstanceMetrics ==
    /\ fetcher.pc = "ready"
    /\ LET d == fetcher.dbIdentifiers
           r == GetRDSInstanceMetrics(d, MapOrder(d, fetcher.up.rev),
                                      fetcher.up)
       IN fetcher' =
            [fetcher EXCEPT
               !.pc = "returned",
               !.requests = generateCloudWatchQueriesForInstances(d),
               !.sent = r.sent,
               !.CloudWatchAPICall = r.CloudWatchAPICall,
               !.Instances = r.Instances,
               !.err = r.err]
    /\ UNCHANGED <<process, ctx, configuration, account, wg, counters, metrics, descs,
                   panicked, collects, tasks, twin>>

NextFetcher == CallGetRDSInstanceMetrics

SpecFetcher == InitFetcher /\ [][NextFetcher]_vars

\* ------------------------------------------------- scrapes, fairly run

\* The main task takes its next step when it can, and a subtask that has
\* been launched runs: its upstream call returns and it goes on to its end.
Fairness ==
    /\ WF_vars(\E s \in Scrapes :
                  \/ Launch(s) \/ Add(s) \/ Inventory(s)
                  \/ Wait(s) \/ Resume(s) \/ Emit(s))
    /\ \A s \in Scrapes, k \in Kinds : WF_vars(Fetch(s, k) \/ Finish(s, k))

\* Scrapes one after the other of an account without instances, with the
\* quotas collected, every task scheduled fairly.
SpecFair == InitLifetime /\ [][Next]_vars /\ Fairness

\* --------------------------- Update and the loop over results on their own

\* The names Update is called with: the metric names, and names that are not
\* a case of the switch (a lowercased name and the empty name among them).
UpdateNames ==
    Range(getCloudWatchMetricsName)
        \cup {"", "cpuutilization", "CPUUtilisation", "Latency"}

\* The RdsMetrics Update is called on.
UpdateReceivers ==
    { EmptyRdsMetrics,
      ("CPUUtilization" :> 1),
      ("DBLoad" :> 2) @@ ("BinLogDiskUsage" :> 4) }

\* The identifier lists whose queries the responses answer.
ResultIdentifiers == { <<"db-a">>, <<"db-a", "db-b">> }

\* The ids of the results of a response to the queries of dbIdentifiers:
\* ids of generated queries, and an id that no query carries.
ResultIds(dbIdentifiers) ==
    { QueryID(n, i) :
        n \in {"CPUUtilization", "DBLoad", "BinLogDiskUsage"},
        i \in 0..(Len(dbIdentifiers) - 1) }
    \cup {"cpuutilization_7"}

\* The value lists of a result, newest first; IsNil: Values == nil.
ResultValues ==
    { [IsNil |-> TRUE, Values |-> <<>>], [IsNil |-> FALSE, Values |-> <<>>],
      [IsNil |-> FALSE, Values |-> <<7>>],
      [IsNil |-> FALSE, Values |-> <<3, 8>>] }

MaxResults == 2

\* The responses of GetMetricData: an error, or up to MaxResults results.
Responses(dbIdentifiers) ==
    LET results == { [Id |-> id] @@ v :
                        id \in ResultIds(dbIdentifiers), v \in ResultValues }
    IN {[err |-> TRUE, MetricDataResults |-> <<>>]}
       \cup { [err |-> FALSE, MetricDataResults |-> r] :
                 r \in UNION {[1..n -> results] : n \in 0..MaxResults} }

\* The map of metrics the earlier chunks of a fetch have filled.
EarlierMetrics ==
    { <<>>,
      ("db-a" :> ("CPUUtilization" :> 1)),
      ("db-b" :> ("DBLoad" :> 2)) }

\* m.Update(field, value) about to be called.
NewUpdateCall(m, field, value) ==
    [pc |-> "ready", op |-> "Update", m |-> m, field |-> field,
     value |-> value, after |-> m, err |-> FALSE]

\* updateMetricsWithCloudWatchQueriesResult about to process resp.
NewResultsCall(ms, dbIdentifiers, resp) ==
    [pc |-> "ready", op |-> "results", metrics |-> ms,
     requests |-> generateCloudWatchQueriesForInstances(dbIdentifiers),
     resp |-> resp, after |-> ms, err |-> FALSE]

InitMetrics ==
    /\ configuration \in {cfg \in UpTo(0) : ~cfg.CollectInstanceTags}
    /\ account = "small"
    /\ wg = 0
    /\ counters = ZeroCounters
    /\ metrics = ZeroMetrics
    /\ descs = NewCollector
    /\ panicked = ""
    /\ collects = [s \in Scrapes |-> IdleCollect]
    /\ tasks = [s \in Scrapes |-> [k \in Kinds |-> NoTask]]
    /\ twin = [metrics |-> ZeroMetrics, counters |-> ZeroCounters]
    /\ ctx = [s \in Scrapes |-> Background]
    /\ fetcher \in
          { NewUpdateCall(m, field, value) :
               m \in UpdateReceivers, field \in UpdateNames,
               value \in {0, 7} }
          \cup UNION { { NewResultsCall(ms, d, resp) :
                            ms \in EarlierMetrics, resp \in Responses(d) } :
                       d \in ResultIdentifiers }
    /\ process = NoProcess

\* m.Update(field, value) is called and returns.
CallUpdate ==
    /\ fetcher.pc = "ready"
    /\ fetcher.op = "Update"
    /\ LET u == Update(fetcher.m, fetcher.field, fetcher.value)
       IN fetcher' = [fetcher EXCEPT !.pc = "returned", !.after = u.m,
                                     !.err = u.err]
    /\ UNCHANGED <<process, ctx, configuration, account, wg, counters, metrics,
                   descs, panicked, collects, tasks, twin>>

\* updateMetricsWithCloudWatchQueriesResult processes the response and
\* returns.
CallUpdateMetrics ==
    /\ fetcher.pc = "ready"
    /\ fetcher.op = "results"
    /\ LET r == updateMetricsWithCloudWatchQueriesResult(
                    fetcher.metrics, fetcher.requests, fetcher.resp)
       IN fetcher' = [fetcher EXCEPT !.pc = "returned", !.after = r.metrics,
                                     !.err = r.err]
    /\ UNCHANGED <<process, ctx, configuration, account, wg, counters, metrics,
                   descs, panicked, collects, tasks, twin>>

NextMetrics == CallUpdate \/ CallUpdateMetrics

SpecMetrics == InitMetrics /\ [][NextMetrics]_vars

\* ------------------------------------------------------------ properties

\* The samples of a sequence with the given metric name.
Named(samples, name) == SelectSeq(samples, LAMBDA x : x.name = name)

\* The subtasks Collect call s launched whose fetch failed.
Failed(s) ==
    {k \in collects[s].launched :
        tasks[s][k].pc \in {"fetched", "done"} /\ tasks[s][k].res.err}

\* The descriptor fields and the api label of the samples that come from the
\* result of each subtask.
FetcherFields ==
    [quota |-> {"quotaDBInstances", "quotaTotalStorage",
                "quotaMaxDBInstanceSnapshots"},
     usage |-> {"usageAllocatedStorage", "usageDBInstances",
                "usageManualSnapshots"},
     ec2 |-> {"instanceMaximumIops", "instanceMaximumThroughput",
              "instanceMemory", "instanceVCPU"},
     cloudwatch |-> {SeriesEmission[i][2] : i \in 1..Len(SeriesEmission)}]

ApiLabel ==
    [quota |-> "servicequotas", usage |-> "usage", ec2 |-> "ec2",
     cloudwatch |-> "cloudwatch"]

FetcherNames(k) == {NewCollector[f].name : f \in FetcherFields[k]}

ProducedBy(k, x) ==
    \/ x.name \in FetcherNames(k)
    \/ x.name = NewCollector.apiCall.name /\ x.labelValues[3] = ApiLabel[k]

Others(k, samples) == SelectSeq(samples, LAMBDA x : ~ProducedBy(k, x))

\* C1: a Collect call that has returned sent exactly one up sample; when its
\* inventory fetch failed, the sample is 0 and the call sent nothing but the
\* build information, the error counter and up, in this order; when the
\* inventory fetch succeeded, the sample is 1.
C1_UpReflectsInventory ==
    \A s \in Scrapes :
        collects[s].pc = "done" =>
            LET e == collects[s].emitted
                ups == Named(e, "up")
            IN /\ Len(ups) = 1
               /\ collects[s].inventory = "failed" =>
                    /\ ups[1].value = 0
                    /\ Len(e) = 3
                    /\ e[1].name = "rds_exporter_build_info"
                    /\ e[2].name = "rds_exporter_errors_total"
                    /\ e[3].name = "up"
               /\ collects[s].inventory = "ok" => ups[1].value = 1
               /\ collects[s].inventory # "pending"

\* A second Collect call has returned after its inventory fetch failed,
\* the first having succeeded.
C1_Witness ==
    /\ collects[2].pc = "done"
    /\ collects[2].inventory = "failed"
    /\ counters.RDSAPIcalls > 0

\* C2: when the inventory fetch of a Collect call has succeeded and exactly
\* one of the subtasks it launched has failed, the call has sent up = 1, and
\* the samples that do not come from the failed subtask are those of the
\* same scrape in which no subtask fails.
C2_OneFailureIsIsolated ==
    \A s \in Scrapes : \A k \in Kinds :
        (collects[s].pc = "done" /\ collects[s].inventory = "ok"
            /\ Failed(s) = {k}) =>
            /\ Len(Named(collects[s].emitted, "up")) = 1
            /\ Named(collects[s].emitted, "up")[1].value = 1
            /\ Others(k, collects[s].emitted)
                 = Others(k, collects[s].twinEmitted)

\* A Collect call with two subtasks has returned, one subtask having failed
\* and the other having stored a result that is sent.
C2_Witness ==
    \E s \in Scrapes :
        /\ collects[s].pc = "done"
        /\ collects[s].inventory = "ok"
        /\ Failed(s) = {"cloudwatch"}
        /\ collects[s].launched = {"cloudwatch", "ec2"}
        /\ Len(Named(collects[s].emitted, "rds_instance_memory_bytes")) > 0
        /\ collects[s].emitted # collects[s].twinEmitted

\* C3: when a Collect call returns, no subtask of another call having run
\* meanwhile, the error counter is what it was when the call began plus the
\* number of the call's subtasks that failed.
C3_ErrorsCounted ==
    \A s \in Scrapes :
        (/\ collects[s].pc = "done"
         /\ \A k \in collects[s].launched : tasks[s][k].pc = "done"
         /\ \A x \in Scrapes \ {s} : \A k \in Kinds : tasks[x][k].pc = "none")
        => counters.Errors
             = Named(collects[s].emitted, "rds_exporter_errors_total")[1].value
               + Cardinality(Failed(s))

\* C4: no panic ends the process.
C4_NoPanic == panicked = ""

\* C5: when a Collect call has returned, every subtask it launched has
\* finished.
C5_Joined ==
    \A s \in Scrapes :
        collects[s].pc = "done" =>
            \A k \in collects[s].launched : tasks[s][k].pc = "done"

\* C6: a Collect call that runs while another does sends what it would send
\* alone: its per-instance samples are of the instances of the inventory it
\* fetched.
C6_Reentrant ==
    \A s \in Scrapes :
        (collects[s].pc = "done" /\ collects[s].inventory = "ok") =>
            LET info == Named(collects[s].emitted, "rds_instance_info")
            IN {info[i].labelValues[3] : i \in 1..Len(info)}
                 = Range(collects[s].instanceIdentifiers)

\* C7: the per-class samples a Collect call sends are of the instance
\* classes of the inventory it fetched: nothing of an earlier scrape is
\* sent.
C7_NothingPersists ==
    \A s \in Scrapes :
        (collects[s].pc = "done" /\ collects[s].inventory = "ok") =>
            \A i \in 1..Len(collects[s].emitted) :
                LET x == collects[s].emitted[i] IN
                x.name \in FetcherNames("ec2") =>
                    \E j \in 1..Len(collects[s].instanceTypes) :
                        collects[s].instanceTypes[j] = x.labelValues[3]

\* C8: the descriptor (name and label names) of every sample a Collect call
\* sends is one of those Describe sends.
C8_Described ==
    \A s \in Scrapes :
        \A i \in 1..Len(collects[s].emitted) :
            LET x == collects[s].emitted[i] IN
            \E j \in 1..Len(Describe(descs)) :
                Describe(descs)[j] = NewDesc(x.name, x.labelNames)

\* The function f with every value computed.
Tabulated(f) == f @@ <<>>

\* The (instance, series) for which CloudWatch returns a value list that is
\* not empty during a GetRDSInstanceMetrics over dbIdentifiers: those whose
\* query is in a call before the one that fails.
AnsweredBy(dbIdentifiers, up) ==
    LET requests == generateCloudWatchQueriesForInstances(dbIdentifiers)
        order == MapOrder(dbIdentifiers, up.rev)
        call(j) == ((j - 1) \div MaxQueriesPerCloudwatchRequest) + 1
    IN {<<requests[order[j]].Dbidentifier, requests[order[j]].MetricName>> :
          j \in {i \in 1..Len(order) :
                    /\ up.failAt = 0 \/ call(i) < up.failAt
                    /\ Len(SeriesAnswer(up.pattern,
                            requests[order[i]].MetricName).Values) > 0}}

RECURSIVE AnswersTable(_)
AnswersTable(lists) ==
    IF lists = {} THEN <<>>
    ELSE LET l == CHOOSE x \in lists : TRUE
         IN (l :> Tabulated([up \in CloudWatchBehaviours(l) |->
                                AnsweredBy(l, up)]))
            @@ AnswersTable(lists \ {l})

UpstreamAnswers == AnswersTable(IdentifierLists)

\* The (series, instance) of the time-series samples Collect call s sent.
SeriesSent(s) ==
    {<<collects[s].emitted[i].name, collects[s].emitted[i].labelValues[3]>> :
        i \in {j \in 1..Len(collects[s].emitted) :
                  collects[s].emitted[j].name \in FetcherNames("cloudwatch")}}

\* C9 as stated: the sample of a series of an instance is sent if and only
\* if CloudWatch returned a value list that is not empty for it.
C9_SentIffReturned ==
    \A s \in Scrapes :
        (collects[s].pc = "done" /\ "cloudwatch" \in collects[s].launched) =>
            LET t == tasks[s]["cloudwatch"] IN
            \A j \in 1..Len(t.arg) : \A i \in 1..Len(SeriesEmission) :
                <<NewCollector[SeriesEmission[i][2]].name, t.arg[j]>>
                    \in SeriesSent(s)
                <=> <<t.arg[j], SeriesEmission[i][1]>>
                        \in UpstreamAnswers[t.arg][t.res.up]

\* C9, amended: the sample of a series of an instance is sent if and only if
\* every GetMetricData call of the scrape's time-series fetch succeeded and
\* CloudWatch returned a value list that is not empty for it; a list that
\* is empty or missing yields no sample.
C9_SentIffFetchedAndReturned ==
    \A s \in Scrapes :
        (collects[s].pc = "done" /\ "cloudwatch" \in collects[s].launched) =>
            LET t == tasks[s]["cloudwatch"]
                sent == SeriesSent(s)
            IN /\ \A j \in 1..Len(t.arg) : \A i \in 1..Len(SeriesEmission) :
                     <<NewCollector[SeriesEmission[i][2]].name, t.arg[j]>>
                         \in sent
                     <=> /\ ~t.res.err
                         /\ <<t.arg[j], SeriesEmission[i][1]>>
                                \in UpstreamAnswers[t.arg][t.res.up]
               /\ \A x \in sent : x[2] \in Range(t.arg)

\* A Collect call has returned whose time-series fetch succeeded, CloudWatch
\* holding a value for one series of an instance, an empty list for
\* another and nothing for the others: the sample of the first was sent.
C9_Witness ==
    \E s \in Scrapes :
        /\ collects[s].pc = "done"
        /\ "cloudwatch" \in collects[s].launched
        /\ ~tasks[s]["cloudwatch"].res.err
        /\ tasks[s]["cloudwatch"].res.up.pattern = "s2"
        /\ Len(tasks[s]["cloudwatch"].arg) > 0
        /\ <<"rds_cpu_usage_percent_average", tasks[s]["cloudwatch"].arg[1]>>
               \in SeriesSent(s)

\* C10: a Collect call whose quota fetch failed sends no rds_quota_* sample,
\* and one whose usage fetch failed sends no rds_usage_* sample.
C10_FailedFetchSendsNothing ==
    \A s \in Scrapes : \A k \in {"quota", "usage"} :
        (collects[s].pc = "done" /\ collects[s].inventory = "ok"
            /\ k \in Failed(s)) =>
            \A i \in 1..Len(collects[s].emitted) :
                collects[s].emitted[i].name \notin FetcherNames(k)

\* C11: a Collect call that has returned after its quota fetch failed and
\* every other fetch succeeded has sent up = 1, an rds_exporter_errors_total
\* sample of value 1 or more, and the samples of every instance of the
\* inventory it fetched.
C11_QuotaFailureReported ==
    \A s \in Scrapes :
        (collects[s].pc = "done" /\ collects[s].inventory = "ok"
            /\ Failed(s) = {"quota"}) =>
            LET e == collects[s].emitted
                info == Named(e, "rds_instance_info")
            IN /\ Len(Named(e, "up")) = 1
               /\ Named(e, "up")[1].value = exporterUpStatusCode
               /\ \E i \in 1..Len(e) :
                     /\ e[i].name = "rds_exporter_errors_total"
                     /\ e[i].value >= 1
               /\ {info[i].labelValues[3] : i \in 1..Len(info)}
                    = Range(collects[s].instanceIdentifiers)

C13_ChunksCounted ==
    \A s \in Scrapes :
        (/\ collects[s].pc = "done"
         /\ "cloudwatch" \in collects[s].launched
         /\ tasks[s]["cloudwatch"].pc = "done"
         /\ ~tasks[s]["cloudwatch"].res.err) =>
            LET t == tasks[s]["cloudwatch"]
                e == collects[s].emitted
                chunks == (24 * Len(t.arg) + 499) \div 500
            IN /\ t.res.calls = chunks
               /\ s = 1 =>
                     \E i \in 1..Len(e) :
                        /\ e[i].name = NewCollector.apiCall.name
                        /\ e[i].labelValues[3] = ApiLabel["cloudwatch"]
                        /\ e[i].value = chunks

\* C14: the query map generateCloudWatchQueriesForInstances builds for a
\* list of identifiers has one entry for each (position in the list, metric
\* name), 24 for each position, also when an identifier is in the list
\* twice: the ids of two different pairs differ, and the request of an id is
\* that of the identifier at its position and of its metric name.
C14_QueryIdsDistinct ==
    fetcher.pc = "returned" =>
        LET d == fetcher.dbIdentifiers
            names == getCloudWatchMetricsName
            pairs == (0..(Len(d) - 1)) \X (1..Len(names))
            id(p) == QueryID(names[p[2]], p[1])
        IN /\ Len(names) = 24
           /\ Cardinality({id(p) : p \in pairs}) = 24 * Len(d)
           /\ DOMAIN fetcher.requests = {id(p) : p \in pairs}
           /\ \A p \in pairs :
                 /\ fetcher.requests[id(p)].Dbidentifier = d[p[1] + 1]
                 /\ fetcher.requests[id(p)].MetricName = names[p[2]]
                 /\ fetcher.requests[id(p)].Id = id(p)

\* The query map of a list that holds the same identifier twice has been
\* built.
C14_Witness ==
    /\ fetcher.pc = "returned"
    /\ fetcher.dbIdentifiers = <<"db-a", "db-a">>
    /\ Cardinality(DOMAIN fetcher.requests) = 48

\* The counter fields the subtask of kind k of Collect call s has written or
\* is about to write, its fetch having returned.
CountersWritten(s, k) ==
    IF tasks[s][k].pc \in {"fetched", "done"}
    THEN {ApiCounter[k]}
         \cup (IF tasks[s][k].res.err THEN {"Errors"} ELSE {})
    ELSE {}

\* C15: no counter field is written by two subtasks of one Collect call, and
\* no subtask is running when the main task reads a counter: when Collect
\* has just sent the error counter, and when it has sent the API call
\* counters.
C15_CountersRaceFree ==
    \A s \in Scrapes :
        /\ \A k1 \in Kinds : \A k2 \in Kinds \ {k1} :
              CountersWritten(s, k1) \cap CountersWritten(s, k2) = {}
        /\ (collects[s].pc = "go" /\ collects[s].at = "quota") =>
              Running = {}
        /\ (collects[s].pc = "done" /\ collects[s].inventory = "ok") =>
              Running = {}

\* C16: a step in which a subtask finishes changes no slot of c.metrics but
\* the subtask's own, the step in which the inventory fetch returns changes
\* none but RDS, and no other step changes a slot; the slots of two kinds of
\* subtask differ, none is RDS, and a Collect call launches the subtask of a
\* kind once at most.
C16_OwnSlotOnly ==
    [][/\ \A f \in DOMAIN metrics :
            metrics'[f] # metrics[f] =>
                \/ /\ f = "RDS"
                   /\ \E s \in Scrapes :
                         /\ collects[s].pc = "inventory"
                         /\ collects'[s].pc # "inventory"
                \/ \E s \in Scrapes, k \in Kinds :
                      /\ Slot[k] = f
                      /\ tasks[s][k].pc = "fetched"
                      /\ tasks'[s][k].pc = "done"
       /\ \A s \in Scrapes, k \in Kinds :
            (tasks[s][k].pc = "fetched" /\ tasks'[s][k].pc = "done") =>
                \A f \in DOMAIN metrics \ {Slot[k]} : metrics'[f] = metrics[f]
       /\ \A s \in Scrapes, k \in Kinds :
            (tasks[s][k].pc # "ready" /\ tasks'[s][k].pc = "ready") =>
                tasks[s][k].pc = "none" /\ k \notin collects[s].launched
       /\ \A k1 \in Kinds :
            /\ Slot[k1] \in DOMAIN metrics \ {"RDS"}
            /\ \A k2 \in Kinds \ {k1} : Slot[k1] # Slot[k2]
      ]_vars

\* Two subtasks of a Collect call have finished, each having stored a
\* result in its slot, next to the inventory.
C16_Witness ==
    \E s \in Scrapes :
        /\ tasks[s]["quota"].pc = "done"
        /\ tasks[s]["ec2"].pc = "done"
        /\ metrics.ServiceQuota # ZeroMetrics.ServiceQuota
        /\ metrics.EC2 # ZeroMetrics.EC2
        /\ metrics.RDS # ZeroMetrics.RDS

\* C17: a Collect call has sent no sample as long as a fetch of its own has
\* not finished: its inventory fetch has returned, and every subtask it
\* launched has finished.
C17_SentAfterFetches ==
    \A s \in Scrapes :
        Len(collects[s].emitted) > 0 =>
            /\ collects[s].inventory # "pending"
            /\ collects[s].pc \in {"emit", "done"}
            /\ \A k \in collects[s].launched : tasks[s][k].pc = "done"

\* C18 as stated: the subtasks a Collect call that has returned launched are
\* those its configuration enables, the instance-type subtask only when the
\* inventory has an instance class.
C18_LaunchedIffEnabled ==
    \A s \in Scrapes :
        collects[s].pc = "done" =>
            collects[s].launched =
                {k \in Enabled(configuration) :
                    k = "ec2" => Len(collects[s].instanceTypes) > 0}

\* C18, amended: a Collect call that has returned launched the quota
\* subtask if and only if CollectQuotas is set and the usage subtask if and
\* only if CollectUsages is set; it launched the time-series subtask if and
\* only if CollectInstanceMetrics is set and its inventory fetch succeeded,
\* and the instance-type subtask if and only if CollectInstanceTypes is set,
\* its inventory fetch succeeded and the inventory has an instance class.
C18_LaunchedIffEnabledAndFetched ==
    \A s \in Scrapes :
        collects[s].pc = "done" =>
            LET c == collects[s] IN
            /\ "quota" \in c.launched <=> configuration.CollectQuotas
            /\ "usage" \in c.launched <=> configuration.CollectUsages
            /\ "cloudwatch" \in c.launched <=>
                    configuration.CollectInstanceMetrics /\ c.inventory = "ok"
            /\ "ec2" \in c.launched <=>
                    /\ configuration.CollectInstanceTypes
                    /\ c.inventory = "ok"
                    /\ Len(c.instanceTypes) > 0

\* A Collect call has returned whose configuration enables the quota and
\* the instance-type subtasks and whose inventory holds no instance: it
\* launched the quota subtask only.
C18_Witness ==
    \E s \in Scrapes :
        /\ collects[s].pc = "done"
        /\ collects[s].inventory = "ok"
        /\ Enabled(configuration) = {"quota", "ec2"}
        /\ collects[s].instanceTypes = <<>>
        /\ collects[s].launched = {"quota"}

\* C19: when a Collect call whose request was cancelled while fetches were
\* in flight has returned, those fetches have ended with an error and the
\* call has sent no sample after the cancellation, but up = 0.
C19_CancelledScrapeDiscarded ==
    \A s \in Scrapes :
        (collects[s].pc = "done" /\ ctx[s].cancelled) =>
            LET e == collects[s].emitted IN
            /\ \A k \in ctx[s].inFlight \cap Kinds : tasks[s][k].res.err
            /\ "inventory" \in ctx[s].inFlight =>
                  collects[s].inventory = "failed"
            /\ \A i \in (ctx[s].sent + 1)..Len(e) :
                  e[i].name = "up" /\ e[i].value = exporterDownStatusCode

\* The value of the rds_exporter_errors_total sample among samples.
ErrorsSent(samples) == Named(samples, "rds_exporter_errors_total")[1].value

\* C20: the error counter a Collect call sends is not less than the one the
\* call before it sent.
C20_CountersMonotonic ==
    [][\A s \in Scrapes :
          (/\ s + 1 \in Scrapes
           /\ collects[s].pc = "done"
           /\ collects[s + 1].pc = "idle"
           /\ collects'[s + 1].pc # "idle") =>
              ErrorsSent(collects'[s + 1].emitted)
                  >= ErrorsSent(collects[s].emitted)
      ]_vars

\* The value a sample carries for the label name.
LabelValue(sample, name) ==
    sample.labelValues[CHOOSE i \in 1..Len(sample.labelNames) :
                           sample.labelNames[i] = name]

\* The label names the tags of an instance stand for.
TagLabelNames(tags) ==
    {"tag_" \o ClearPrometheusLabel(k) : k \in DOMAIN tags}

\* Collect call s has returned after fetchMetrics returned no error.
Successful(s) == collects[s].pc = "done" /\ collects[s].inventory = "ok"

\* C21: with collect-instance-tags, a scrape sends for each instance exactly
\* one rds_instance_tags sample, of value 0, whose label names are the three
\* fixed ones and one tag_ name per sanitized tag key, each once, whose
\* values are paired with the names (the fixed labels keep the account, the
\* region and the identifier, a tag label carries the value of a tag of that
\* name); without the flag it sends no rds_instance_tags sample.
C21_InstanceTags ==
    \A s \in Scrapes :
        Successful(s) =>
            LET tagSamples == Named(collects[s].emitted, "rds_instance_tags")
                instances == metrics.RDS.Instances
            IN
            IF configuration.CollectInstanceTags
            THEN /\ Len(tagSamples) = Cardinality(DOMAIN instances)
                 /\ \A d \in DOMAIN instances :
                       \E i \in 1..Len(tagSamples) :
                          LET x == tagSamples[i]
                              tags == instances[d].Tags
                          IN
                          /\ x.value = 0
                          /\ Len(x.labelNames) = Len(x.labelValues)
                          /\ Range(x.labelNames) =
                                 Range(InstanceLabels) \cup TagLabelNames(tags)
                          /\ Len(x.labelNames) = Cardinality(Range(x.labelNames))
                          /\ LabelValue(x, "aws_account_id") = awsAccountID
                          /\ LabelValue(x, "aws_region") = awsRegion
                          /\ LabelValue(x, "dbidentifier") = d
                          /\ \A k \in DOMAIN tags :
                                LabelValue(x, "tag_" \o ClearPrometheusLabel(k))
                                    \in {tags[k2] :
                                            k2 \in {y \in DOMAIN tags :
                                                ClearPrometheusLabel(y) =
                                                    ClearPrometheusLabel(k)}}
            ELSE tagSamples = <<>>

\* A scrape with the flag has sent the tags of two instances, one of them
\* with tags named like the fixed labels.
C21_Witness ==
    \E s \in Scrapes :
        /\ Successful(s)
        /\ configuration.CollectInstanceTags
        /\ Len(Named(collects[s].emitted, "rds_instance_tags")) = 2
        /\ \E d \in DOMAIN metrics.RDS.Instances :
              <<"a", "w", "s", "_", "r", "e", "g", "i", "o", "n">>
                  \in DOMAIN metrics.RDS.Instances[d].Tags

\* The labels getInstanceTagLabels returns, as a map from names to values.
LabelMap(r) ==
    [name \in Range(r.keys) |->
        r.values[CHOOSE i \in 1..Len(r.keys) : r.keys[i] = name]]

\* C22: two runs of getInstanceTagLabels on one instance give each label the
\* same value, also a label that two tag keys sanitize to: whatever run sent
\* the rds_instance_tags sample of an instance, each of its labels has the
\* value that the run visiting the maps in the other order gives it.
C22_CollisionsDeterministic ==
    \A s \in Scrapes :
        (Successful(s) /\ configuration.CollectInstanceTags) =>
            LET tagSamples == Named(collects[s].emitted, "rds_instance_tags")
            IN \A i \in 1..Len(tagSamples) :
                  LET x == tagSamples[i]
                      d == LabelValue(x, "dbidentifier")
                      instance == metrics.RDS.Instances[d]
                  IN \A rev \in BOOLEAN :
                        LET again == LabelMap(getInstanceTagLabels(d, instance, rev))
                        IN \A name \in DOMAIN again :
                              LabelValue(x, name) = again[name]

\* The metric name and the set of label names of each of the samples.
Pairs(samples) ==
    {<<samples[i].name, Range(samples[i].labelNames)>> : i \in 1..Len(samples)}

\* What a Collect call sends when every upstream answer is empty.
EmptyScrape ==
    CollectHead(NewCollector, ZeroCounters)
    \o CollectTail(NewCollector, configuration, ZeroCounters, ZeroMetrics, FALSE)

\* C23 as stated: every successful scrape sends the same set of pairs of a
\* metric name and a set of label names, whatever the upstream answered: the
\* set sent when every answer is empty.
C23_SameSeriesInEveryScrape ==
    \A s \in Scrapes :
        Successful(s) => Pairs(collects[s].emitted) = Pairs(EmptyScrape)

\* C23 as amended: every sample of a successful scrape has the metric name
\* and the label names of one of the descriptors built at construction, or
\* is an rds_instance_tags sample whose label names are the three fixed ones
\* and the tag names of its instance.
C23_SeriesOfFixedDescriptors ==
    \A s \in Scrapes :
        Successful(s) =>
            \A i \in 1..Len(collects[s].emitted) :
                LET x == collects[s].emitted[i] IN
                IF x.name = "rds_instance_tags"
                THEN \E d \in DOMAIN metrics.RDS.Instances :
                        Range(x.labelNames) =
                            Range(InstanceLabels)
                                \cup TagLabelNames(metrics.RDS.Instances[d].Tags)
                ELSE \E f \in DOMAIN NewCollector \ {"instanceTags"} :
                        /\ NewCollector[f].name = x.name
                        /\ NewCollector[f].labels = x.labelNames

\* A successful scrape of two instances has sent samples that the scrape of
\* an empty account does not send, the tags of an instance among them.
C23_Witness ==
    \E s \in Scrapes :
        /\ Successful(s)
        /\ Cardinality(DOMAIN metrics.RDS.Instances) = 2
        /\ Named(collects[s].emitted, "rds_instance_tags") # <<>>
        /\ Named(collects[s].emitted, "rds_instance_age_seconds") # <<>>
        /\ Named(collects[s].emitted, "rds_api_call_total") # <<>>

\* C24: when the upstream quota calls succeed, GetRDSQuotas returns no error,
\* the total storage quota times 2^30, and the DB instances quota and the
\* manual snapshots quota as the upstream reports them.
C24_QuotasConverted ==
    (fetcher.pc = "returned" /\ ~fetcher.fails) =>
        /\ ~fetcher.err
        /\ fetcher.result.TotalStorage = fetcher.upstream.TotalStorage * (2 ^ 30)
        /\ fetcher.result.DBinstances = fetcher.upstream.DBinstances
        /\ fetcher.result.ManualDBInstanceSnapshots =
               fetcher.upstream.ManualDBInstanceSnapshots

\* GetRDSQuotas has returned the quotas of an account whose storage quota is
\* not zero.
C24_Witness ==
    /\ fetcher.pc = "returned"
    /\ ~fetcher.fails
    /\ fetcher.upstream.TotalStorage = 1
    /\ fetcher.upstream.DBinstances = 9
    /\ fetcher.upstream.ManualDBInstanceSnapshots = 100

\* The exit code the kinds of failure stand for: a configuration error, the
\* failure to decode the configuration among them, 1; an HTTP server error
\* 2; a command execution error 3; an AWS configuration or credential
\* error 4.
ExitCodeOfKind ==
    [configuration |-> 1, decode |-> 1, http |-> 2, command |-> 3, aws |-> 4]

\* C25: once the process has met a failure of one of these kinds, it has
\* exited with the exit code of that kind.
C25_ExitCodeByKind ==
    process.pc # "none" =>
        \A kind \in process.failures \cap DOMAIN ExitCodeOfKind :
            /\ process.pc = "exited"
            /\ process.exitCode = ExitCodeOfKind[kind]

\* C26: the gatherer of the regions returns no error, and when the registry
\* of a region fails to gather, the metric families of every other region
\* are in what it returns, as their registry returned them, and none of the
\* failing region.
C26_GathererNeverFails ==
    process.pc # "none" =>
        LET g == process.gathered IN
        /\ ~g.err
        /\ \A region \in Range(g.order) \ g.failed :
              \E offset \in 0..Len(g.metrics) :
                 /\ offset + Len(Families(region)) <= Len(g.metrics)
                 /\ SubSeq(g.metrics, offset + 1,
                           offset + Len(Families(region))) = Families(region)
        /\ \A i \in 1..Len(g.metrics) : g.metrics[i].region \notin g.failed

\* The gatherer has been called with two regions, the registry of one of
\* which failed to gather.
C26_Witness ==
    /\ process.pc = "serving"
    /\ Len(process.gathered.order) = 2
    /\ Cardinality(process.gathered.failed) = 1
    /\ process.gathered.metrics # <<>>

\* C27: when startup has completed and the process serves, the regions that
\* have a registry are the region codes listed for aws-regions, and each
\* registry holds exactly one collector.
C27_OneCollectorPerRegion ==
    process.pc = "serving" =>
        /\ process.listed # <<>> =>
              DOMAIN process.registries = Range(process.listed)
        /\ \A region \in DOMAIN process.registries :
              Len(process.registries[region].collectors) = 1

\* C28: a serving process serves the metrics endpoint over TLS exactly when
\* both tls-cert-path and tls-key-path are configured, and over plain HTTP
\* otherwise.
C28_TLSWhenBothPaths ==
    process.pc = "serving" =>
        (process.scheme = "https" <=>
            /\ process.configuration.TLSCertPath # ""
            /\ process.configuration.TLSKeyPath # "")

\* The samples of a sequence that carry one of the given names.
NamedIn(samples, names) ==
    SelectSeq(samples, LAMBDA x : x.name \in names)

\* The GetMetricData calls the time-series subtask of scrape s has issued.
IssuedBy(s) ==
    LET t == tasks[s]["cloudwatch"] IN
    GetRDSInstanceMetrics(t.arg, MapOrder(t.arg, t.res.up.rev), t.res.up).issued

\* The collects whose inventory fetch has succeeded with no instance.
EmptyFleet(s) ==
    /\ collects[s].inventory = "ok"
    /\ collects[s].instanceIdentifiers = <<>>

\* C29: in a collect whose inventory is fetched and holds no instance, the
\* instance-type subtask is not launched and the time-series fetcher issues
\* no upstream call; once the collect has returned it has sent up = 1 once,
\* no sample labelled by an instance, no time-series sample, and the quota
\* and the usage samples exactly when their flags are set.
C29_EmptyFleet ==
    \A s \in Scrapes :
       EmptyFleet(s) =>
          /\ "ec2" \notin collects[s].launched
          /\ tasks[s]["ec2"].pc = "none"
          /\ tasks[s]["cloudwatch"].pc \in {"fetched", "done"} =>
                /\ IssuedBy(s) = 0
                /\ tasks[s]["cloudwatch"].res.calls = 0
                /\ ~tasks[s]["cloudwatch"].res.err
          /\ collects[s].pc = "done" =>
                LET e == collects[s].emitted
                    series == {descs[SeriesEmission[i][2]].name :
                                  i \in 1..Len(SeriesEmission)}
                    quota == {descs.quotaDBInstances.name,
                              descs.quotaTotalStorage.name,
                              descs.quotaMaxDBInstanceSnapshots.name}
                    usage == {descs.usageAllocatedStorage.name,
                              descs.usageDBInstances.name,
                              descs.usageManualSnapshots.name}
                IN
                /\ Len(NamedIn(e, {descs.up.name})) = 1
                /\ NamedIn(e, {descs.up.name})[1].value = exporterUpStatusCode
                /\ \A i \in 1..Len(e) :
                      /\ \A j \in 1..Len(e[i].labelNames) :
                            e[i].labelNames[j] # "dbidentifier"
                      /\ e[i].name \notin series
                      /\ e[i].name # "rds_instance_tags"
                /\ \A n \in quota :
                      Len(NamedIn(e, {n})) =
                          IF configuration.CollectQuotas THEN 1 ELSE 0
                /\ \A n \in usage :
                      Len(NamedIn(e, {n})) =
                          IF configuration.CollectUsages THEN 1 ELSE 0

\* The second collect has returned for an empty fleet, with the instance
\* types and the time series enabled and the time-series subtask launched,
\* while the results of an earlier, non-empty fleet's instance types remain.
C29_Witness ==
    /\ EmptyFleet(2)
    /\ collects[2].pc = "done"
    /\ configuration.CollectInstanceTypes
    /\ "cloudwatch" \in collects[2].launched
    /\ tasks[2]["cloudwatch"].pc = "done"
    /\ DOMAIN metrics.EC2.Instances # {}

\* C30: every collect that has begun has sent the build information sample,
\* of value 1, and the error counter sample exactly once each, whether its
\* inventory fetch succeeds or fails and whatever the configuration.
C30_HeadOnce ==
    \A s \in Scrapes :
       collects[s].pc \notin {"idle", "retired"} =>
          LET e == collects[s].emitted IN
          /\ Len(Named(e, "rds_exporter_build_info")) = 1
          /\ Named(e, "rds_exporter_build_info")[1].value = 1
          /\ Len(Named(e, "rds_exporter_errors_total")) = 1

\* A second collect has returned after its inventory fetch failed, with the
\* instance tags and the quotas enabled and an error counted before it.
C30_Witness ==
    /\ collects[2].pc = "done"
    /\ collects[2].inventory = "failed"
    /\ configuration.CollectInstanceTags
    /\ configuration.CollectQuotas
    /\ Named(collects[2].emitted, "rds_exporter_errors_total")[1].value > 0

\* C31: within a scrape, the quota and the usage subtasks that the flags
\* enable are launched when the inventory fetch is invoked; the time-series
\* and the instance-type subtasks are launched only after the inventory fetch
\* has returned without error, with the identifiers and the instance classes
\* of the inventory it returned; after a failed inventory fetch they are not
\* launched.
C31_LaunchOrder ==
    \A s \in Scrapes :
       collects[s].pc \notin {"idle", "retired"} =>
          LET c == collects[s]
              early == Enabled(configuration) \cap {"quota", "usage"}
              derived == getUniqTypeAndIdentifiers(metrics.RDS.Instances)
          IN
          /\ c.pc = "inventory" =>
                /\ c.inventory = "pending"
                /\ c.launched = early
          /\ c.inventory # "pending" => c.launched \cap {"quota", "usage"} = early
          /\ \A k \in {"ec2", "cloudwatch"} :
                /\ k \in c.launched <=> tasks[s][k].pc # "none"
                /\ k \in c.launched => c.inventory = "ok"
                /\ (k \in c.launched /\ s = Current) =>
                      tasks[s][k].arg =
                          IF k = "ec2" THEN derived.instanceTypes
                          ELSE derived.instanceIdentifiers
          /\ c.inventory = "failed" =>
                c.launched \cap {"ec2", "cloudwatch"} = {}

\* A scrape has launched the quota subtask, fetched an inventory of two
\* instances and launched the time-series subtask with their identifiers.
C31_Witness ==
    \E s \in Scrapes :
       /\ collects[s].inventory = "ok"
       /\ collects[s].launched = {"quota", "cloudwatch"}
       /\ Len(tasks[s]["cloudwatch"].arg) = 2

\* C38: Update called with the name of one of the 24 fields of RdsMetrics
\* sets that field to the given value, leaves the other 23 fields as they
\* were and returns no error; called with any other name it returns an
\* error and leaves the 24 fields as they were.
C38_UpdateFrame ==
    (fetcher.pc = "returned" /\ fetcher.op = "Update") =>
        IF fetcher.field \in RdsMetricsFields
        THEN /\ ~fetcher.err
             /\ IsSet(fetcher.after, fetcher.field)
             /\ fetcher.after[fetcher.field] = fetcher.value
             /\ DOMAIN fetcher.after \subseteq RdsMetricsFields
             /\ \A f \in RdsMetricsFields \ {fetcher.field} :
                   /\ IsSet(fetcher.after, f) <=> IsSet(fetcher.m, f)
                   /\ IsSet(fetcher.m, f) => fetcher.after[f] = fetcher.m[f]
        ELSE /\ fetcher.err
             /\ fetcher.after = fetcher.m

\* Update has returned after replacing the value of a field that was set,
\* on an RdsMetrics with another field set.
C38_Witness ==
    /\ fetcher.pc = "returned"
    /\ fetcher.op = "Update"
    /\ fetcher.field = "DBLoad"
    /\ fetcher.m = ("DBLoad" :> 2) @@ ("BinLogDiskUsage" :> 4)
    /\ fetcher.after = ("DBLoad" :> 7) @@ ("BinLogDiskUsage" :> 4)

\* The value of the field of an instance in a map of metrics: <<>> when the
\* instance has no entry or the field is nil, <<v>> otherwise.
FieldOf(ms, d, f) ==
    IF d \in DOMAIN ms /\ IsSet(ms[d], f) THEN <<ms[d][f]>> ELSE <<>>

\* The results of the processed response that carry a value for the query
\* of the metric f of the instance d.
Hits(d, f) ==
    LET results == fetcher.resp.MetricDataResults IN
    {i \in 1..Len(results) :
        /\ ~results[i].IsNil
        /\ Len(results[i].Values) > 0
        /\ fetcher.requests[results[i].Id].Dbidentifier = d
        /\ fetcher.requests[results[i].Id].MetricName = f}

\* Every result of the processed response answers a generated query.
Originated ==
    \A i \in 1..Len(fetcher.resp.MetricDataResults) :
       fetcher.resp.MetricDataResults[i].Id \in DOMAIN fetcher.requests

\* C32: when a response whose results answer generated queries has been
\* processed, the field of the query's metric of the query's instance holds
\* the first value of the (last) result that carries values for that query,
\* and every field no such result addresses, of any instance, is as it was:
\* a result with an empty value list changes no field.
C32_FirstValueStored ==
    (fetcher.pc = "returned" /\ fetcher.op = "results"
        /\ ~fetcher.resp.err /\ Originated) =>
        LET results == fetcher.resp.MetricDataResults
            instances == DOMAIN fetcher.after \cup DOMAIN fetcher.metrics
                            \cup {"db-a", "db-b"}
        IN
        /\ ~fetcher.err
        /\ \A d \in DOMAIN fetcher.after :
              DOMAIN fetcher.after[d] \subseteq RdsMetricsFields
        /\ \A d \in instances : \A f \in RdsMetricsFields :
              IF Hits(d, f) # {}
              THEN FieldOf(fetcher.after, d, f) =
                      <<results[CHOOSE i \in Hits(d, f) :
                                   \A j \in Hits(d, f) : j <= i].Values[1]>>
              ELSE FieldOf(fetcher.after, d, f) =
                      FieldOf(fetcher.metrics, d, f)

\* A response has been processed that carries two values for a metric of
\* db-b and an empty list for a metric of db-a whose field an earlier chunk
\* had set: the first value is in db-b's field and db-a's field is kept.
C32_Witness ==
    /\ fetcher.pc = "returned"
    /\ fetcher.op = "results"
    /\ fetcher.metrics = ("db-a" :> ("CPUUtilization" :> 1))
    /\ fetcher.resp.MetricDataResults =
          << [Id |-> "dbload_1", IsNil |-> FALSE, Values |-> <<3, 8>>],
             [Id |-> "cpuutilization_0", IsNil |-> FALSE, Values |-> <<>>] >>
    /\ fetcher.after = ("db-a" :> ("CPUUtilization" :> 1))
                          @@ ("db-b" :> ("DBLoad" :> 3))

\* C39: every name of getCloudWatchMetricsName is accepted by Update; the 24
\* names are pairwise distinct, also after lowercasing; and processing a
\* response whose results all carry the id of a generated query returns an
\* error only when GetMetricData itself failed, never the unknown-metric
\* error.
C39_NamesAccepted ==
    /\ \A i \in 1..Len(getCloudWatchMetricsName) :
          /\ ~Update(EmptyRdsMetrics, getCloudWatchMetricsName[i], 0).err
          /\ getCloudWatchMetricsName[i] \in DOMAIN ToLower
    /\ Len(getCloudWatchMetricsName) = 24
    /\ Cardinality(Range(getCloudWatchMetricsName)) = 24
    /\ Cardinality({ToLower[getCloudWatchMetricsName[i]] :
                       i \in 1..Len(getCloudWatchMetricsName)}) = 24
    /\ (fetcher.pc = "returned" /\ fetcher.op = "results" /\ Originated) =>
          (fetcher.err <=> fetcher.resp.err)
    /\ (fetcher.pc = "returned" /\ fetcher.op = "Update"
          /\ fetcher.field \in Range(getCloudWatchMetricsName)) =>
          ~fetcher.err

\* A response with values for the last metric name, BinLogDiskUsage, of the
\* second instance has been processed without error.
C39_Witness ==
    /\ fetcher.pc = "returned"
    /\ fetcher.op = "results"
    /\ Originated
    /\ ~fetcher.err
    /\ \E i \in 1..Len(fetcher.resp.MetricDataResults) :
          /\ fetcher.resp.MetricDataResults[i].Id = "binlogdiskusage_1"
          /\ Len(fetcher.resp.MetricDataResults[i].Values) > 0
    /\ IsSet(fetcher.after["db-b"], "BinLogDiskUsage")

C34_CounterNeverNegative ==
    /\ wg >= 0
    /\ \A s \in Scrapes : \A k \in Kinds :
          tasks[s][k].pc = "done" =>
             ~(collects[s].pc = "add" /\ collects[s].at = k)

\* C35: every collect that has begun eventually returns, when every upstream
\* call returns and the tasks are scheduled fairly, also after a collect
\* whose inventory fetch failed.
C35_CollectReturns ==
    \A s \in Scrapes :
       (collects[s].pc \notin {"idle", "done", "retired"})
           ~> (collects[s].pc \in {"done", "retired"})

\* No subtask that is to be seen has failed.
NoSubtaskFailed ==
    \A x \in Scrapes, k \in Kinds :
       tasks[x][k].pc \in {"fetched", "done"} => ~tasks[x][k].res.err

\* C36: a collect that has returned after its inventory fetch failed, no
\* subtask having failed, leaves the error counter at the value it had when
\* the collect began, and has sent up = 0 after the build information and
\* the error counter, and nothing else.
C36_InventoryFailureNotCounted ==
    \A s \in Scrapes :
       (/\ collects[s].pc = "done"
        /\ collects[s].inventory = "failed"
        /\ NoSubtaskFailed) =>
          LET e == collects[s].emitted IN
          /\ counters.Errors = ErrorsSent(e)
          /\ Len(e) = 3
          /\ Len(Named(e, "up")) = 1
          /\ Named(e, "up")[1].value = exporterDownStatusCode

\* A second collect has returned after its inventory fetch failed, with its
\* quota subtask finished without error, the first collect having counted an
\* error.
C36_Witness ==
    /\ collects[2].pc = "done"
    /\ collects[2].inventory = "failed"
    /\ tasks[2]["quota"].pc = "done"
    /\ NoSubtaskFailed
    /\ counters.Errors = 1

\* The API call samples of a sequence that carry the label value api.
ApiCalls(samples, api) ==
    SelectSeq(samples, LAMBDA x : x.name = "rds_api_call_total"
                                   /\ x.labelValues[Len(x.labelValues)] = api)

\* C37: a collect that has returned after a successful inventory fetch has
\* sent the API call counter once for each of rds, cloudwatch and ec2,
\* whatever the flags; the usage counter and the three usage samples once
\* each when CollectUsages is set and not at all otherwise; the servicequotas
\* counter and the three quota samples once each when CollectQuotas is set
\* and not at all otherwise.
C37_CountersAndAccountSamples ==
    \A s \in Scrapes :
       (collects[s].pc = "done" /\ collects[s].inventory = "ok") =>
          LET e == collects[s].emitted
              times(b) == IF b THEN 1 ELSE 0
          IN
          /\ \A api \in {"rds", "cloudwatch", "ec2"} : Len(ApiCalls(e, api)) = 1
          /\ Len(ApiCalls(e, "usage")) = times(configuration.CollectUsages)
          /\ \A n \in {"rds_usage_allocated_storage_bytes",
                       "rds_usage_db_instances_average",
                       "rds_usage_manual_snapshots_average"} :
                Len(Named(e, n)) = times(configuration.CollectUsages)
          /\ Len(ApiCalls(e, "servicequotas"))
                = times(configuration.CollectQuotas)
          /\ \A n \in {"rds_quota_max_dbinstances_average",
                       "rds_quota_total_storage_bytes",
                       "rds_quota_maximum_db_instance_snapshots_average"} :
                Len(Named(e, n)) = times(configuration.CollectQuotas)
          /\ Len(Named(e, "rds_api_call_total"))
                = 3 + times(configuration.CollectUsages)
                    + times(configuration.CollectQuotas)
          /\ \A i \in 1..Len(e) :
                \/ e[i].name \in {NewCollector[f].name : f \in DOMAIN NewCollector}
                \/ e[i].name = "rds_instance_tags"

\* A collect has returned after a successful inventory fetch with the usages
\* collected and neither the quotas, the instance types nor the time series.
C37_Witness ==
    \E s \in Scrapes :
       /\ collects[s].pc = "done"
       /\ collects[s].inventory = "ok"
       /\ Enabled(configuration) = {"usage"}
       /\ Len(ApiCalls(collects[s].emitted, "usage")) = 1
       /\ Len(ApiCalls(collects[s].emitted, "ec2")) = 1

====
